---- MODULE Spec2Model ----
(***************************************************************************)
(* Block <-> markup engine and editor state of the prompt builder.         *)
(*                                                                         *)
(*   src/unnamed/part_000               escapeXml, escapeXmlContent,       *)
(*                                      buildXml; the Home component:      *)
(*                                      block list, drag and drop,         *)
(*                                      history, templates, persistence    *)
(*   src/frontend/app/routes/home.tsx   escapeXml, buildXml (older copy),  *)
(*                                      parseXmlToBlocks, handleImportXml  *)
(*                                                                         *)
(* A JavaScript string is a sequence of one-character strings, so that     *)
(* escaping, splitting, trimming and parsing are computed character by     *)
(* character.                                                              *)
(***************************************************************************)
EXTENDS Integers, Sequences, FiniteSets, TLC

VARIABLES blocks, indent, xml, ver, text, result, xml2, esc, nextUid, pc,
          importError, esc2, thrown, imports,
          draggingId, dragOver, dragData, pointerDrag, pointerIdRef, listeners,
          bumped, justAddedId, removing, timers,
          history, storedHistory, lastSnapshotRef, autoTimer, copies,
          saved, persistTimer, templates, storedTemplates

\* the state of parsing and importing
parseVars == <<ver, text, result, xml2, esc, importError, esc2, thrown, imports>>

\* the state of serialising, parsing and importing
pipelineVars == <<xml, parseVars>>

\* the state of dragging
dragVars == <<draggingId, dragOver, dragData, pointerDrag, pointerIdRef, listeners>>

\* the state of the block list animations and the pending timeouts
listVars == <<bumped, justAddedId, removing, timers>>

\* the history list, its copy in localStorage, the last snapshot, the pending
\* auto-snapshot and the clipboard writes not yet settled
historyVars == <<history, storedHistory, lastSnapshotRef, copies>>

\* the saved templates and their copy in localStorage
templateVars == <<templates, storedTemplates>>

\* what localStorage and the pending timeouts of the effects hold
storeVars == <<historyVars, autoTimer, saved, persistTimer, templateVars>>

\* the state of the editor beyond blocks and indent
editorVars == <<dragVars, listVars, storeVars>>

vars == <<blocks, indent, nextUid, pc, pipelineVars, editorVars>>

(***************************************************************************)
(* Bounds of the model.                                                    *)
(***************************************************************************)
MaxBlocks == 2
MaxAttrs == 2
MaxTokens == 3
MaxTextLen == 3
\* indent arguments range over -MaxBelow..MaxIndent
MaxBelow == 2
MaxIndent == 10
\* imports in one session
MaxImports == 3
\* blocks in the editor
MaxEditorBlocks == 3
\* pointers down at the same time
MaxPointers == 2
\* uid() calls made by the editor after which it adds no block or attribute
MaxUid == 4
\* timeouts of the block list pending at the same time
MaxTimers == 2
\* uid() calls after which the history takes no entry
MaxHistoryUid == 6
\* uid() calls after which no template is saved or loaded
MaxTemplateUid == 8
\* templates saved
MaxTemplates == 1
\* clipboard writes not yet settled
MaxCopies == 1
\* the entries the history keeps: MAX_HISTORY of the code, 100 there
MAX_HISTORY == 2

(***************************************************************************)
(* JavaScript values and String.prototype methods.                         *)
(***************************************************************************)
\* an optional value (a field that may be undefined) is <<>> or <<value>>
undefined == <<>>
Some(v) == <<v>>

\* the characters String.prototype.trim removes (those of the model's alphabet)
WhiteSpace == {" ", "\n", "\t", "\r"}

RECURSIVE Flatten(_)
Flatten(ss) == IF ss = <<>> THEN <<>> ELSE Head(ss) \o Flatten(Tail(ss))

\* " ".repeat(n)
Repeat(c, n) == [i \in 1..n |-> c]

\* text.replaceAll(c, r), c a one-character pattern
ReplaceAll(s, c, r) == Flatten([i \in 1..Len(s) |-> IF s[i] = c THEN r ELSE <<s[i]>>])

RECURSIVE TrimStart(_)
TrimStart(s) ==
    IF s # <<>> /\ Head(s) \in WhiteSpace THEN TrimStart(Tail(s)) ELSE s

RECURSIVE TrimEnd(_)
TrimEnd(s) ==
    IF s # <<>> /\ s[Len(s)] \in WhiteSpace
    THEN TrimEnd(SubSeq(s, 1, Len(s) - 1)) ELSE s

\* text.trim()
Trim(s) == TrimEnd(TrimStart(s))

\* the first position from i on that holds a character of C; Len(s) + 1 if none
NextAt(s, i, C) ==
    CHOOSE k \in i..(Len(s) + 1) :
        /\ k = Len(s) + 1 \/ s[k] \in C
        /\ \A m \in i..(k - 1) : s[m] \notin C

\* text.split(sep), sep a one-character separator
RECURSIVE SplitFrom(_, _, _)
SplitFrom(s, sep, i) ==
    IF NextAt(s, i, {sep}) > Len(s) THEN <<SubSeq(s, i, Len(s))>>
    ELSE <<SubSeq(s, i, NextAt(s, i, {sep}) - 1)>>
         \o SplitFrom(s, sep, NextAt(s, i, {sep}) + 1)

Split(s, sep) == SplitFrom(s, sep, 1)

\* lines.join(sep)
RECURSIVE Join(_, _)
Join(ls, sep) ==
    IF ls = <<>> THEN <<>>
    ELSE IF Len(ls) = 1 THEN ls[1]
    ELSE ls[1] \o sep \o Join(Tail(ls), sep)

\* Math.max / Math.min
Max(a, b) == IF a >= b THEN a ELSE b
Min(a, b) == IF a <= b THEN a ELSE b

(***************************************************************************)
(* Escaping.                                                               *)
(***************************************************************************)
AMP == <<"&", "a", "m", "p", ";">>
LT == <<"&", "l", "t", ";">>
GT == <<"&", "g", "t", ";">>
QUOT == <<"&", "q", "u", "o", "t", ";">>
APOS == <<"&", "a", "p", "o", "s", ";">>

\* the substitutions with '&' replaced last
escapeXmlAmpLast(s) ==
    ReplaceAll(ReplaceAll(ReplaceAll(ReplaceAll(ReplaceAll(s,
        "<", LT), ">", GT), "\"", QUOT), "'", APOS), "&", AMP)

escapeXml(s) ==
    ReplaceAll(ReplaceAll(ReplaceAll(ReplaceAll(ReplaceAll(s,
        "&", AMP), "<", LT), ">", GT), "\"", QUOT), "'", APOS)

escapeXmlContent(s) == ReplaceAll(s, "&", AMP)

(***************************************************************************)
(* buildXml.                                                               *)
(***************************************************************************)
\* the width with no upper limit
indentSizeNoUpper(opts) ==
    Max(0, IF opts.indent = undefined THEN 2 ELSE opts.indent[1])

\* opts.indent ?? 2, clamped to 0..8
indentSize(opts) ==
    Max(0, Min(8, IF opts.indent = undefined THEN 2 ELSE opts.indent[1]))

indentOf(opts, level) == Repeat(" ", level * indentSize(opts))

\* the filter on the name as typed, not trimmed
keepAttrNoTrim(a) == a.name # <<>>

keepAttr(a) == Trim(a.name) # <<>>

\* attrs.filter((a) => a.name.trim())
RECURSIVE filterAttrs(_)
filterAttrs(attrs) ==
    IF attrs = <<>> THEN <<>>
    ELSE IF keepAttr(Head(attrs)) THEN <<Head(attrs)>> \o filterAttrs(Tail(attrs))
    ELSE filterAttrs(Tail(attrs))

\* the value escaped a second time
renderAttrTwice(a) == a.name \o <<"=", "\"">> \o escapeXml(escapeXml(a.value)) \o <<"\"">>

\* `${a.name}="${escapeXml(a.value)}"`
renderAttr(a) == a.name \o <<"=", "\"">> \o escapeXml(a.value) \o <<"\"">>

renderAttrs(attrs) ==
    LET kept == filterAttrs(attrs)
    IN  Join([i \in 1..Len(kept) |-> renderAttr(kept[i])], <<" ">>)

\* the emptiness test on the content as typed, not trimmed
hasContentUntrimmed(b) == Len(b.content) > 0

hasContent(b) == Len(Trim(b.content)) > 0

openTag(b) ==
    LET attrsStr == renderAttrs(b.attrs)
    IN  IF attrsStr # <<>>
        THEN <<"<">> \o b.tag \o <<" ">> \o attrsStr \o <<">">>
        ELSE <<"<">> \o b.tag \o <<">">>

closeTag(b) == <<"<", "/">> \o b.tag \o <<">">>

\* a collapsed block left out of the output
renderBlockSkipCollapsed(b, level, opts) ==
    IF b.collapsed = Some(TRUE) THEN <<>>
    ELSE <<indentOf(opts, level) \o openTag(b)>>
         \o (IF hasContent(b)
             THEN [i \in 1..Len(Split(b.content, "\n")) |->
                     indentOf(opts, level + 1) \o escapeXmlContent(Split(b.content, "\n")[i])]
             ELSE <<>>)
         \o <<indentOf(opts, level) \o closeTag(b)>>

\* a block with an empty tag left out of the output
renderBlockSkipEmptyTag(b, level, opts) ==
    IF b.tag = <<>> THEN <<>>
    ELSE <<indentOf(opts, level) \o openTag(b)>>
         \o (IF hasContent(b)
             THEN [i \in 1..Len(Split(b.content, "\n")) |->
                     indentOf(opts, level + 1) \o escapeXmlContent(Split(b.content, "\n")[i])]
             ELSE <<>>)
         \o <<indentOf(opts, level) \o closeTag(b)>>

\* the lines renderBlock pushes for one block (part_000)
renderBlock(b, level, opts) ==
    LET segs == Split(b.content, "\n")
    IN  <<indentOf(opts, level) \o openTag(b)>>
        \o (IF hasContent(b)
            THEN [i \in 1..Len(segs) |->
                    indentOf(opts, level + 1) \o escapeXmlContent(segs[i])]
            ELSE <<>>)
        \o <<indentOf(opts, level) \o closeTag(b)>>

\* every line ended by a newline, the last one too
buildXmlTrailingNewline(bs, opts) ==
    Flatten([i \in 1..Len(bs) |->
        Flatten([j \in 1..Len(renderBlock(bs[i], 0, opts)) |->
            renderBlock(bs[i], 0, opts)[j] \o <<"\n">>])])

buildXml(bs, opts) ==
    Join(Flatten([i \in 1..Len(bs) |-> renderBlock(bs[i], 0, opts)]), <<"\n">>)

\* the copy in home.tsx: content lines go through escapeXml
renderBlockHome(b, level, opts) ==
    LET segs == Split(b.content, "\n")
    IN  <<indentOf(opts, level) \o openTag(b)>>
        \o (IF hasContent(b)
            THEN [i \in 1..Len(segs) |->
                    indentOf(opts, level + 1) \o escapeXml(segs[i])]
            ELSE <<>>)
        \o <<indentOf(opts, level) \o closeTag(b)>>

buildXmlHome(bs, opts) ==
    Join(Flatten([i \in 1..Len(bs) |-> renderBlockHome(bs[i], 0, opts)]), <<"\n">>)

(***************************************************************************)
(* DOMParser.parseFromString(text, "text/xml"): the well-formedness rules  *)
(* of XML 1.0 over the model's alphabet (no comments, processing           *)
(* instructions, CDATA sections, doctype, character references or          *)
(* namespace prefixes, whose characters are not in the alphabet).          *)
(* A node is an element [type |-> 1, tag, attrs, kids] or a text node      *)
(* [type |-> 3, data].                                                     *)
(***************************************************************************)
XmlSpace == {" ", "\n", "\t", "\r"}

Letters ==
    {"a", "b", "c", "d", "e", "f", "g", "h", "i", "j", "k", "l", "m", "n",
     "o", "p", "q", "r", "s", "t", "u", "v", "w", "x", "y", "z",
     "A", "B", "N", "R"}
Digits == {"0", "1", "2", "3", "4", "5", "6", "7", "8", "9"}
NameStartChars == Letters \cup {"_"}
NameChars == NameStartChars \cup Digits \cup {"-", "."}

Fail == [ok |-> FALSE]

At(s, i) == IF i >= 1 /\ i <= Len(s) THEN s[i] ELSE "EOF"

StartsWith(s, i, p) == i + Len(p) - 1 <= Len(s) /\ SubSeq(s, i, i + Len(p) - 1) = p

RECURSIVE SkipSpace(_, _)
SkipSpace(s, i) == IF At(s, i) \in XmlSpace THEN SkipSpace(s, i + 1) ELSE i

RECURSIVE NameRun(_, _)
NameRun(s, i) == IF At(s, i) \in NameChars THEN NameRun(s, i + 1) ELSE i

\* the position after the Name starting at i; i itself when no Name starts there
NameEnd(s, i) == IF At(s, i) \in NameStartChars THEN NameRun(s, i + 1) ELSE i

\* the predefined entities; any other reference is an undefined entity
Entities ==
    << [ref |-> AMP, ch |-> "&"], [ref |-> LT, ch |-> "<"], [ref |-> GT, ch |-> ">"],
       [ref |-> QUOT, ch |-> "\""], [ref |-> APOS, ch |-> "'"] >>

ParseReference(s, i) ==
    LET hits == {k \in 1..Len(Entities) : StartsWith(s, i, Entities[k].ref)}
    IN  IF hits = {} THEN Fail
        ELSE LET k == CHOOSE k \in hits : TRUE
             IN  [ok |-> TRUE, pos |-> i + Len(Entities[k].ref), ch |-> Entities[k].ch]

\* AttValue after its opening quote q, with attribute-value normalisation
RECURSIVE ParseAttValue(_, _, _, _)
ParseAttValue(s, i, q, acc) ==
    IF i > Len(s) THEN Fail
    ELSE IF s[i] = q THEN [ok |-> TRUE, pos |-> i + 1, value |-> acc]
    ELSE IF s[i] = "<" THEN Fail
    ELSE IF s[i] = "&" THEN
        LET r == ParseReference(s, i)
        IN  IF r.ok THEN ParseAttValue(s, r.pos, q, Append(acc, r.ch)) ELSE Fail
    ELSE IF s[i] \in XmlSpace THEN ParseAttValue(s, i + 1, q, Append(acc, " "))
    ELSE ParseAttValue(s, i + 1, q, Append(acc, s[i]))

\* (S Attribute)* S? up to the '>' or '/' that ends the tag
RECURSIVE ParseAttrs(_, _, _)
ParseAttrs(s, i, acc) ==
    LET j == SkipSpace(s, i)
        k == NameEnd(s, j)
        e == SkipSpace(s, k)
        v == SkipSpace(s, e + 1)
        name == SubSeq(s, j, k - 1)
    IN  IF At(s, j) \in {">", "/"} THEN [ok |-> TRUE, pos |-> j, attrs |-> acc]
        ELSE IF j = i \/ k = j \/ At(s, e) # "=" \/ At(s, v) \notin {"\"", "'"} THEN Fail
        ELSE IF \E n \in 1..Len(acc) : acc[n].name = name THEN Fail
        ELSE LET r == ParseAttValue(s, v + 1, s[v], <<>>)
             IN  IF r.ok
                 THEN ParseAttrs(s, r.pos, Append(acc, [name |-> name, value |-> r.value]))
                 ELSE Fail

\* character data joins the preceding text node
AppendText(kids, c) ==
    IF kids # <<>> /\ kids[Len(kids)].type = 3
    THEN [kids EXCEPT ![Len(kids)].data = @ \o c]
    ELSE Append(kids, [type |-> 3, data |-> c])

RECURSIVE ParseElement(_, _)
RECURSIVE ParseContent(_, _, _)

\* content, up to an end tag or the end of the input
ParseContent(s, i, kids) ==
    IF i > Len(s) THEN [ok |-> TRUE, pos |-> i, kids |-> kids]
    ELSE IF s[i] = "<" THEN
        IF At(s, i + 1) = "/" THEN [ok |-> TRUE, pos |-> i, kids |-> kids]
        ELSE LET el == ParseElement(s, i)
             IN  IF el.ok THEN ParseContent(s, el.pos, Append(kids, el.node)) ELSE Fail
    ELSE IF s[i] = "&" THEN
        LET r == ParseReference(s, i)
        IN  IF r.ok THEN ParseContent(s, r.pos, AppendText(kids, <<r.ch>>)) ELSE Fail
    ELSE ParseContent(s, NextAt(s, i, {"<", "&"}),
                      AppendText(kids, SubSeq(s, i, NextAt(s, i, {"<", "&"}) - 1)))

\* after the content c of an element: the end tag '</' tag S? '>'
ElementClosed(s, tag, attrs, c) ==
    LET etag == <<"<", "/">> \o tag
        g == SkipSpace(s, c.pos + Len(etag))
    IN  IF c.ok /\ StartsWith(s, c.pos, etag) /\ At(s, g) = ">"
        THEN [ok |-> TRUE, pos |-> g + 1,
              node |-> [type |-> 1, tag |-> tag, attrs |-> attrs, kids |-> c.kids]]
        ELSE Fail

\* after the attributes at of a tag: '/>', or '>' content and the end tag
ElementTagged(s, tag, at) ==
    IF ~at.ok THEN Fail
    ELSE IF At(s, at.pos) = "/" THEN
        IF At(s, at.pos + 1) = ">"
        THEN [ok |-> TRUE, pos |-> at.pos + 2,
              node |-> [type |-> 1, tag |-> tag, attrs |-> at.attrs, kids |-> <<>>]]
        ELSE Fail
    ELSE ElementClosed(s, tag, at.attrs, ParseContent(s, at.pos + 1, <<>>))

\* after '<': the Name that ends before k, then the attributes
ElementNamed(s, i, k) ==
    IF k = i + 1 THEN Fail
    ELSE ElementTagged(s, SubSeq(s, i + 1, k - 1), ParseAttrs(s, k, <<>>))

\* element: an empty-element tag, or start tag, content and matching end tag
ParseElement(s, i) ==
    IF At(s, i) # "<" THEN Fail ELSE ElementNamed(s, i, NameEnd(s, i + 1))

\* nothing but white space may follow the document element
DocumentEnd(s, el) ==
    IF el.ok /\ SkipSpace(s, el.pos) = Len(s) + 1 THEN el ELSE Fail

\* document: one element, with nothing but white space before and after it
ParseDocument(s) == DocumentEnd(s, ParseElement(s, SkipSpace(s, 1)))

ParserErrorText == <<"X", "M", "L", " ", "e", "r", "r", "o", "r">>

\* the document of a parse: a text that is not well-formed gives a document
\* holding a parsererror element
documentOf(d) ==
    IF d.ok THEN [documentElement |-> d.node]
    ELSE [documentElement |->
            [type |-> 1, tag |-> <<"p", "a", "r", "s", "e", "r", "e", "r", "r", "o", "r">>,
             attrs |-> <<>>,
             kids |-> <<[type |-> 3, data |-> ParserErrorText]>>]]

parseFromString(s) == documentOf(ParseDocument(s))

\* node.textContent
RECURSIVE textContent(_)
textContent(n) ==
    IF n.type = 3 THEN n.data
    ELSE Flatten([i \in 1..Len(n.kids) |-> textContent(n.kids[i])])

\* the element itself and its descendant elements, in document order
RECURSIVE elementsOf(_)
elementsOf(n) ==
    IF n.type # 1 THEN <<>>
    ELSE <<n>> \o Flatten([i \in 1..Len(n.kids) |-> elementsOf(n.kids[i])])

RECURSIVE selectTag(_, _)
selectTag(els, name) ==
    IF els = <<>> THEN <<>>
    ELSE IF Head(els).tag = name THEN <<Head(els)>> \o selectTag(Tail(els), name)
    ELSE selectTag(Tail(els), name)

\* doc.getElementsByTagName(name)
getElementsByTagName(doc, name) == selectTag(elementsOf(doc.documentElement), name)

\* Array.from(rootEl.childNodes).filter((n) => n.nodeType === 1)
RECURSIVE elementChildren(_)
elementChildren(kids) ==
    IF kids = <<>> THEN <<>>
    ELSE IF Head(kids).type = 1 THEN <<Head(kids)>> \o elementChildren(Tail(kids))
    ELSE elementChildren(Tail(kids))

(***************************************************************************)
(* parseXmlToBlocks (home.tsx).  uid() is modelled by a counter: the n-th  *)
(* call returns <<prefix, n>>.                                             *)
(***************************************************************************)
uid(prefix, n) == <<prefix, n>>

PARSERERROR == <<"p", "a", "r", "s", "e", "r", "e", "r", "r", "o", "r">>
XROOT == <<"x", "-", "r", "o", "o", "t">>

\* `<x-root>\n${xml}\n</x-root>`
wrapInRoot(x) ==
    <<"<">> \o XROOT \o <<">", "\n">> \o x \o <<"\n", "<", "/">> \o XROOT \o <<">">>

\* the content taken as it is, not trimmed
RECURSIVE elsToBlocksNoTrim(_, _)
elsToBlocksNoTrim(els, n) ==
    IF els = <<>> THEN <<>>
    ELSE << [id |-> uid("blk", n),
             collapsed |-> undefined,
             tag |-> Head(els).tag,
             content |-> textContent(Head(els)),
             attrs |-> [j \in 1..Len(Head(els).attrs) |->
                          [id |-> uid("attr", n + j),
                           name |-> Head(els).attrs[j].name,
                           value |-> Head(els).attrs[j].value]]] >>
         \o elsToBlocksNoTrim(Tail(els), n + 1 + Len(Head(els).attrs))

\* targetEls.map((el) => ({ id, tag, content, attrs })), the uid counter at n
RECURSIVE elsToBlocks(_, _)
elsToBlocks(els, n) ==
    IF els = <<>> THEN <<>>
    ELSE LET el == Head(els)
         IN  << [id |-> uid("blk", n),
                 collapsed |-> undefined,
                 tag |-> el.tag,
                 content |-> Trim(textContent(el)),
                 attrs |-> [j \in 1..Len(el.attrs) |->
                              [id |-> uid("attr", n + j),
                               name |-> el.attrs[j].name,
                               value |-> el.attrs[j].value]]] >>
             \o elsToBlocks(Tail(els), n + 1 + Len(el.attrs))

XmlParseErrorMsg == <<"X", "M", "L", " ", "p", "a", "r", "s", "e", " ", "e", "r", "r", "o", "r">>

\* the message taken from the element alone, with no default
errorMessageNoDefault(err) == textContent(err)

\* err.textContent || "XML parse error"
errorMessage(err) ==
    IF textContent(err) # <<>> THEN textContent(err) ELSE XmlParseErrorMsg

\* the root name kept whether or not the text was wrapped
rootNameIgnoringWrap(wrapped, hasElementChildren, rootEl) ==
    IF hasElementChildren THEN Some(rootEl.tag) ELSE undefined

\* !wrapped && hasElementChildren ? rootEl.tagName : undefined
rootName(wrapped, hasElementChildren, rootEl) ==
    IF ~wrapped /\ hasElementChildren THEN Some(rootEl.tag) ELSE undefined

\* the root element made a block next to its children
blocksOfWithRoot(n, wrapped, rootEl, children) ==
    [root |-> rootName(wrapped, Len(children) > 0, rootEl),
     blocks |-> elsToBlocks(<<rootEl>> \o children, n),
     wrapped |-> Some(wrapped),
     error |-> undefined]

\* lines 82-96: the blocks of the children of rootEl, or of rootEl itself
blocksOf(n, wrapped, rootEl, children) ==
    [root |-> rootName(wrapped, Len(children) > 0, rootEl),
     blocks |-> elsToBlocks(IF Len(children) > 0 THEN children ELSE <<rootEl>>, n),
     wrapped |-> Some(wrapped),
     error |-> undefined]

\* lines 78-96: the result for the document of the last attempt
resultOf(n, a) ==
    IF getElementsByTagName(a.doc, PARSERERROR) # <<>>
    THEN [root |-> undefined, blocks |-> <<>>, wrapped |-> undefined,
          error |-> Some(errorMessage(getElementsByTagName(a.doc, PARSERERROR)[1]))]
    ELSE blocksOf(n, a.wrapped, a.doc.documentElement,
                  elementChildren(a.doc.documentElement.kids))

\* lines 71-77: a second attempt inside <x-root> when the first has a parsererror
attempt(x, doc1) ==
    IF getElementsByTagName(doc1, PARSERERROR) # <<>>
    THEN [doc |-> parseFromString(wrapInRoot(x)), wrapped |-> TRUE]
    ELSE [doc |-> doc1, wrapped |-> FALSE]

parseXmlToBlocks(x, n) == resultOf(n, attempt(x, parseFromString(x)))

FailedToParseMsg == <<"F", "a", "i", "l", "e", "d", " ", "t", "o", " ", "p", "a", "r", "s", "e", " ", "X", "M", "L">>

\* e.message
messageOf(e) == e.message

\* the message of the thrown value returned as it is, with no default
catchResultNoDefault(e) ==
    [root |-> undefined, blocks |-> <<>>, wrapped |-> undefined, error |-> messageOf(e)]

\* lines 97-99: { blocks: [], error: e?.message || "Failed to parse XML" }
catchResult(e) ==
    [root |-> undefined, blocks |-> <<>>, wrapped |-> undefined,
     error |-> Some(IF messageOf(e) # undefined /\ messageOf(e)[1] # <<>>
                    THEN messageOf(e)[1] ELSE FailedToParseMsg)]

NotDefinedMsg == <<"D", "O", "M", "P", "a", "r", "s", "e", "r", " ", "i", "s", " ", "n", "o", "t", " ", "d", "e", "f", "i", "n", "e", "d">>

\* what new DOMParser() or parseFromString may throw: an error with a
\* message, with an empty message, or a value with no message
Thrown ==
    {[message |-> Some(NotDefinedMsg)], [message |-> Some(<<>>)], [message |-> undefined]}

\* the number of uid() calls that built a block list
RECURSIVE uidCalls(_)
uidCalls(bs) ==
    IF bs = <<>> THEN 0 ELSE 1 + Len(Head(bs).attrs) + uidCalls(Tail(bs))

(***************************************************************************)
(* Inputs.                                                                 *)
(***************************************************************************)
RECURSIVE SeqsUpTo(_, _)
SeqsUpTo(S, n) ==
    IF n = 0 THEN {<<>>}
    ELSE LET shorter == SeqsUpTo(S, n - 1)
         IN  shorter \cup {Append(q, e) : q \in shorter, e \in S}

Tags == {<<"a">>, <<"b">>}

Contents ==
    { <<>>,
      <<"x">>,
      <<"x", "\n", "y">>,
      <<"<", "b", ">">>,
      <<" ", "&", "x">> }

AttrNames == {<<"n">>, <<"m">>, <<>>, <<" ">>}
AttrValues == {<<"v">>, <<"<", "b", ">">>}

RawAttrs == [name : AttrNames, value : AttrValues]

\* blocks without attributes, and one block carrying a list of attributes
PlainBlocks == [tag : Tags, content : Contents, attrs : {<<>>}]
AttrBlocks == [tag : {<<"a">>}, content : {<<"x">>}, attrs : SeqsUpTo(RawAttrs, MaxAttrs)]

\* single blocks at the edges: an empty tag, blank content, empty segments,
\* and the block { tag: "system", content: "Be terse.", attrs: [] }
EdgeBlocks ==
    [tag : {<<>>}, content : {<<>>, <<"x">>},
     attrs : {<<>>, <<[name |-> <<"n">>, value |-> <<"v">>]>>}]
    \cup [tag : {<<"a">>},
          content : {<<" ">>, <<" ", "\n">>, <<"\n", "x", "\n", "\n", " ", "y", " ">>},
          attrs : {<<>>}]
    \cup {[tag |-> <<"s", "y", "s", "t", "e", "m">>,
           content |-> <<"B", "e", " ", "t", "e", "r", "s", "e", ".">>,
           attrs |-> <<>>]}

RawBlockLists ==
    SeqsUpTo(PlainBlocks, MaxBlocks) \cup {<<b>> : b \in AttrBlocks \cup EdgeBlocks}

\* the ids the editor gave the blocks and attributes, by uid() calls from n
RECURSIVE withIds(_, _)
withIds(raw, n) ==
    IF raw = <<>> THEN <<>>
    ELSE LET b == Head(raw)
         IN  << [id |-> uid("blk", n), collapsed |-> undefined,
                 tag |-> b.tag, content |-> b.content,
                 attrs |-> [j \in 1..Len(b.attrs) |->
                              [id |-> uid("attr", n + j),
                               name |-> b.attrs[j].name,
                               value |-> b.attrs[j].value]]] >>
             \o withIds(Tail(raw), n + 1 + Len(b.attrs))

BlockLists == {withIds(raw, 1) : raw \in RawBlockLists}

\* the indent option: omitted, or a number
IndentValues == {undefined} \cup {Some(k) : k \in (0 - MaxBelow)..MaxIndent}

\* markup fragments the parser inputs are concatenated from
Tokens ==
    { <<"<", "a", ">">>,
      <<"<", "/", "a", ">">>,
      <<"<", "b", ">">>,
      <<"<", "a", ">", "1", "<", "/", "a", ">">>,
      <<"<", "b", ">", "2", "<", "/", "b", ">">>,
      <<"<", "n", "o", "t", "e", ">", "h", "e", "l", "l", "o", "<", "/", "n", "o", "t", "e", ">">>,
      <<"<", "p", "a", "r", "s", "e", "r", "e", "r", "r", "o", "r", "/", ">">>,
      <<"<", "R", " ", "n", "=", "\"", "v", "\"", " ", "m", "=", "'", "&", "l", "t", ";", "'", ">">>,
      <<"<", "/", "R", ">">>,
      <<"<", "a", ">", " ", "1", "<", "b", ">", "2", "<", "/", "b", ">", "\n", "<", "/", "a", ">">>,
      <<"\n">>,
      <<"x">>,
      <<"&">> }

Texts == {Flatten(ts) : ts \in SeqsUpTo(Tokens, MaxTokens)}

EscChars == {"&", "<", ">", "\"", "'", "a", ";"}
EscTexts == SeqsUpTo(EscChars, MaxTextLen)

NoResult == [root |-> undefined, blocks |-> <<>>, wrapped |-> undefined, error |-> undefined]

\* no drag, no animation, no timeout
ListIdle ==
    /\ draggingId = undefined
    /\ dragOver = undefined
    /\ dragData = undefined
    /\ pointerDrag = FALSE
    /\ pointerIdRef = undefined
    /\ listeners = <<>>
    /\ bumped = undefined
    /\ justAddedId = undefined
    /\ removing = {}
    /\ timers = {}

\* nothing in memory yet, no timeout pending
StoreIdle ==
    /\ history = <<>>
    /\ storedHistory = undefined
    /\ lastSnapshotRef = undefined
    /\ autoTimer = undefined
    /\ copies = <<>>
    /\ persistTimer = undefined
    /\ templates = <<>>
    /\ storedTemplates = undefined

\* a write already pending is kept: a new one starts only when none is
persistEffectNoCancel ==
    persistTimer' = IF persistTimer # undefined THEN persistTimer
                    ELSE IF blocks' # blocks \/ indent' # indent
                    THEN Some([blocks |-> blocks', indent |-> indent'])
                    ELSE persistTimer

\* the effects of a render: the xml memo, the debounced write of blocks and
\* indent, the auto-snapshot timeout restarted when xml changed
persistEffect ==
    persistTimer' = IF blocks' # blocks \/ indent' # indent
                    THEN Some([blocks |-> blocks', indent |-> indent'])
                    ELSE persistTimer

snapshotEffect ==
    autoTimer' = IF xml' # xml THEN Some([blocks |-> blocks', xml |-> xml']) ELSE autoTimer

Rendered ==
    /\ xml' = buildXml(blocks', [indent |-> indent'])
    /\ persistEffect
    /\ snapshotEffect

\* the editor after the first render of the mounted component
EditorMounted ==
    /\ ListIdle
    /\ xml = buildXml(blocks, [indent |-> indent])
    /\ history = <<>>
    /\ storedHistory = undefined
    /\ lastSnapshotRef = undefined
    /\ autoTimer = Some([blocks |-> blocks, xml |-> xml])
    /\ copies = <<>>
    /\ saved = Some([blocks |-> blocks, indent |-> indent])
    /\ persistTimer = Some([blocks |-> blocks, indent |-> indent])
    /\ templates = <<>>
    /\ storedTemplates = undefined

\* the editor state of a Home component just constructed (useState, useRef)
EditorIdle == ListIdle /\ StoreIdle

(***************************************************************************)
(* Serialise, import the serialised text, serialise the imported blocks.   *)
(***************************************************************************)
Init ==
    /\ blocks \in BlockLists
    /\ indent \in IndentValues
    /\ xml = <<>>
    /\ ver = "none"
    /\ text = <<>>
    /\ result = NoResult
    /\ xml2 = <<>>
    /\ esc = <<>>
    /\ nextUid = 1 + uidCalls(blocks)
    /\ pc = "start"
    /\ importError = undefined
    /\ esc2 = <<>>
    /\ thrown = undefined
    /\ imports = 0
    /\ saved = undefined
    /\ EditorIdle

\* xml = buildXml(blocks, { indent }) of part_000
Serialize ==
    /\ pc = "start"
    /\ xml' = buildXml(blocks, [indent |-> indent])
    /\ ver' = "part_000"
    /\ pc' = "built"
    /\ UNCHANGED <<blocks, indent, text, result, xml2, esc, nextUid, importError, esc2, thrown, imports>>
    /\ UNCHANGED editorVars

\* xml = buildXml(blocks, { indent }) of home.tsx
SerializeHome ==
    /\ pc = "start"
    /\ xml' = buildXmlHome(blocks, [indent |-> indent])
    /\ ver' = "home"
    /\ pc' = "built"
    /\ UNCHANGED <<blocks, indent, text, result, xml2, esc, nextUid, importError, esc2, thrown, imports>>
    /\ UNCHANGED editorVars

\* parseXmlToBlocks on the serialised text
Import ==
    /\ pc = "built"
    /\ text' = xml
    /\ result' = parseXmlToBlocks(xml, nextUid)
    /\ nextUid' = nextUid + uidCalls(result'.blocks)
    /\ pc' = "parsed"
    /\ UNCHANGED <<blocks, indent, xml, ver, xml2, esc, importError, esc2, thrown, imports>>
    /\ UNCHANGED editorVars

\* buildXml on the imported blocks, same file and same options
Reserialize ==
    /\ pc = "parsed"
    /\ xml2' = IF ver = "home" THEN buildXmlHome(result.blocks, [indent |-> indent])
               ELSE buildXml(result.blocks, [indent |-> indent])
    /\ pc' = "rebuilt"
    /\ UNCHANGED <<blocks, indent, xml, ver, text, result, esc, nextUid, importError, esc2, thrown, imports>>
    /\ UNCHANGED editorVars

Next == Serialize \/ SerializeHome \/ Import \/ Reserialize

Spec == Init /\ [][Next]_vars

(***************************************************************************)
(* parseXmlToBlocks on arbitrary text.                                     *)
(***************************************************************************)
InitParse ==
    /\ blocks = <<>>
    /\ indent = undefined
    /\ xml = <<>>
    /\ ver = "none"
    /\ text \in Texts
    /\ result = NoResult
    /\ xml2 = <<>>
    /\ esc = <<>>
    /\ nextUid = 1
    /\ pc = "input"
    /\ importError = undefined
    /\ esc2 = <<>>
    /\ thrown = undefined
    /\ imports = 0
    /\ saved = undefined
    /\ EditorIdle

Parse ==
    /\ pc = "input"
    /\ result' = parseXmlToBlocks(text, nextUid)
    /\ nextUid' = nextUid + uidCalls(result'.blocks)
    /\ pc' = "parsed"
    /\ UNCHANGED <<blocks, indent, xml, ver, text, xml2, esc, importError, esc2, thrown, imports>>
    /\ UNCHANGED editorVars

\* parseXmlToBlocks when the parser throws: the catch clause returns
ParseThrows ==
    /\ pc = "input"
    /\ \E e \in Thrown :
        /\ thrown' = Some(e)
        /\ result' = catchResult(e)
    /\ pc' = "caught"
    /\ UNCHANGED <<blocks, indent, xml, ver, text, xml2, esc, nextUid, importError, esc2, imports>>
    /\ UNCHANGED editorVars

NextParse == Parse \/ ParseThrows

SpecParse == InitParse /\ [][NextParse]_vars

(***************************************************************************)
(* The two escapers on arbitrary text.                                     *)
(***************************************************************************)
InitEscape ==
    /\ blocks = <<>>
    /\ indent = undefined
    /\ xml = <<>>
    /\ ver = "none"
    /\ text \in EscTexts
    /\ result = NoResult
    /\ xml2 = <<>>
    /\ esc = <<>>
    /\ nextUid = 1
    /\ pc = "input"
    /\ importError = undefined
    /\ esc2 = <<>>
    /\ thrown = undefined
    /\ imports = 0
    /\ saved = undefined
    /\ EditorIdle

EscapeAttr ==
    /\ pc = "input"
    /\ esc' = escapeXml(text)
    /\ pc' = "escapedAttr"
    /\ UNCHANGED <<blocks, indent, xml, ver, text, result, xml2, nextUid, importError, esc2, thrown, imports>>
    /\ UNCHANGED editorVars

EscapeContent ==
    /\ pc = "input"
    /\ esc' = escapeXmlContent(text)
    /\ pc' = "escapedContent"
    /\ UNCHANGED <<blocks, indent, xml, ver, text, result, xml2, nextUid, importError, esc2, thrown, imports>>
    /\ UNCHANGED editorVars

\* escapeXml on its own result
EscapeAttrAgain ==
    /\ pc = "escapedAttr"
    /\ esc2' = escapeXml(esc)
    /\ pc' = "twiceAttr"
    /\ UNCHANGED <<blocks, indent, xml, ver, text, result, xml2, esc, nextUid,
                   importError, thrown, imports>>
    /\ UNCHANGED editorVars

\* escapeXmlContent on its own result
EscapeContentAgain ==
    /\ pc = "escapedContent"
    /\ esc2' = escapeXmlContent(esc)
    /\ pc' = "twiceContent"
    /\ UNCHANGED <<blocks, indent, xml, ver, text, result, xml2, esc, nextUid,
                   importError, thrown, imports>>
    /\ UNCHANGED editorVars

\* buildXml, of either file, on one block that has the text as content and
\* as attribute value
BuildFromText ==
    /\ pc = "input"
    /\ blocks' = withIds(<<[tag |-> <<"a">>, content |-> text,
                            attrs |-> <<[name |-> <<"n">>, value |-> text]>>]>>, nextUid)
    /\ nextUid' = nextUid + uidCalls(blocks')
    /\ \E v \in {"part_000", "home"} :
        /\ ver' = v
        /\ xml' = IF v = "home" THEN buildXmlHome(blocks', [indent |-> indent])
                  ELSE buildXml(blocks', [indent |-> indent])
    /\ pc' = "builtFromText"
    /\ UNCHANGED <<indent, text, result, xml2, esc, importError, esc2, thrown, imports>>
    /\ UNCHANGED editorVars

NextEscape ==
    EscapeAttr \/ EscapeContent \/ EscapeAttrAgain \/ EscapeContentAgain \/ BuildFromText

SpecEscape == InitEscape /\ [][NextEscape]_vars

(***************************************************************************)
(* The Home component: mount, then imports through handleImportXml.        *)
(***************************************************************************)
\* the template set on mount when nothing is stored
SeedBlocks(n) ==
    << [id |-> uid("blk", n), collapsed |-> undefined,
        tag |-> <<"s", "y", "s", "t", "e", "m">>,
        content |-> <<"Y", "o", "u", " ", "a", "r", "e", " ", "a", " ", "h", "e", "l", "p", "f", "u", "l", " ", "a", "s", "s", "i", "s", "t", "a", "n", "t", ".">>,
        attrs |-> <<>>],
       [id |-> uid("blk", n + 1), collapsed |-> undefined,
        tag |-> <<"i", "n", "s", "t", "r", "u", "c", "t", "i", "o", "n">>,
        content |-> <<"F", "o", "l", "l", "o", "w", " ", "t", "h", "e", " ", "s", "t", "e", "p", "s", " ", "c", "a", "r", "e", "f", "u", "l", "l", "y", ".">>,
        attrs |-> <<>>],
       [id |-> uid("blk", n + 2), collapsed |-> undefined,
        tag |-> <<"i", "n", "p", "u", "t">>,
        content |-> <<"{", "u", "s", "e", "r", "_", "i", "n", "p", "u", "t", "}">>,
        attrs |-> <<[id |-> uid("attr", n + 3),
                     name |-> <<"f", "o", "r", "m", "a", "t">>,
                     value |-> <<"t", "e", "x", "t">>]>>],
       [id |-> uid("blk", n + 4), collapsed |-> undefined,
        tag |-> <<"o", "u", "t", "p", "u", "t", "_", "f", "o", "r", "m", "a", "t">>,
        content |-> <<"J", "S", "O", "N", " ", "w", "i", "t", "h", " ", "f", "i", "e", "l", "d", "s", ":", " ", "a", "n", "s", "w", "e", "r", ",", " ", "r", "e", "a", "s", "o", "n", "i", "n", "g">>,
        attrs |-> <<>>] >>

\* what localStorage holds under STORAGE_KEY: nothing, or a saved document
Stored ==
    {undefined,
     Some([blocks |-> withIds(<<[tag |-> <<"b">>, content |-> <<"x">>, attrs |-> <<>>]>>, 1),
           indent |-> undefined])}

\* the texts handed to handleImportXml: an empty file, two siblings, an
\* unclosed tag, a document with a root element
ImportTexts ==
    {<<>>,
     <<"<", "a", ">", "1", "<", "/", "a", ">", "\n", "<", "b", ">", "2", "<", "/", "b", ">">>,
     <<"<", "a", ">">>,
     <<"<", "R", " ", "n", "=", "\"", "v", "\"", ">", "<", "a", ">", "1", "<", "/", "a", ">", "<", "/", "R", ">">>}

InitImport ==
    /\ blocks = <<>>
    /\ indent = Some(2)
    /\ xml = <<>>
    /\ ver = "none"
    /\ text = <<>>
    /\ result = NoResult
    /\ xml2 = <<>>
    /\ esc = <<>>
    /\ nextUid = 1
    /\ pc = "mount"
    /\ importError = undefined
    /\ esc2 = <<>>
    /\ thrown = undefined
    /\ imports = 0
    /\ saved \in Stored
    /\ EditorIdle

\* the effect run on mount: the stored document, or the template
Mount ==
    /\ pc = "mount"
    /\ \E stored \in {saved} :
        IF stored # undefined
        THEN /\ blocks' = stored[1].blocks
             /\ indent' = IF stored[1].indent = undefined THEN Some(2) ELSE stored[1].indent
             /\ nextUid' = nextUid + uidCalls(stored[1].blocks)
        ELSE /\ blocks' = SeedBlocks(nextUid)
             /\ nextUid' = nextUid + 5
             /\ UNCHANGED indent
    /\ pc' = "home"
    /\ UNCHANGED <<xml, ver, text, result, xml2, esc, importError, esc2, thrown, imports>>
    /\ persistEffect
    /\ UNCHANGED <<dragVars, listVars, historyVars, autoTimer, saved, templateVars>>

\* setBlocks(blks) with no test of the error
importedBlocksAlways(res, old) == res.blocks

\* if (!error) setBlocks(blks)
importedBlocks(res, old) ==
    IF res.error = undefined \/ res.error[1] = <<>> THEN res.blocks ELSE old

handleImportXml ==
    /\ pc = "home"
    /\ imports < MaxImports
    /\ \E t \in ImportTexts :
        /\ text' = t
        /\ result' = parseXmlToBlocks(t, nextUid)
    /\ thrown' = undefined
    /\ importError' = result'.error
    /\ blocks' = importedBlocks(result', blocks)
    /\ nextUid' = nextUid + uidCalls(result'.blocks)
    /\ imports' = imports + 1
    /\ UNCHANGED <<indent, xml, ver, xml2, esc, pc, esc2>>
    /\ persistEffect
    /\ UNCHANGED <<dragVars, listVars, historyVars, autoTimer, saved, templateVars>>

\* handleImportXml when the parser throws inside parseXmlToBlocks
handleImportXmlThrown ==
    /\ pc = "home"
    /\ imports < MaxImports
    /\ \E t \in ImportTexts : text' = t
    /\ \E e \in Thrown :
        /\ thrown' = Some(e)
        /\ result' = catchResult(e)
    /\ importError' = result'.error
    /\ blocks' = importedBlocks(result', blocks)
    /\ imports' = imports + 1
    /\ UNCHANGED <<indent, xml, ver, xml2, esc, nextUid, pc, esc2>>
    /\ persistEffect
    /\ UNCHANGED <<dragVars, listVars, historyVars, autoTimer, saved, templateVars>>

\* onChange of the import text area
ClearImportError ==
    /\ pc = "home"
    /\ importError' = undefined
    /\ UNCHANGED <<blocks, indent, xml, ver, text, result, xml2, esc, nextUid, pc,
                   esc2, thrown, imports>>
    /\ UNCHANGED editorVars

NextImport == Mount \/ handleImportXml \/ handleImportXmlThrown \/ ClearImportError

SpecImport == InitImport /\ [][NextImport]_vars

(***************************************************************************)
(* The block list of the editor: move, drag and drop, pointer drag.        *)
(***************************************************************************)
\* prev.findIndex((b) => b.id === id): the 0-based index, or -1
findIndex(prev, id) ==
    IF \E i \in 1..Len(prev) : prev[i].id = id
    THEN (CHOOSE i \in 1..Len(prev) :
            prev[i].id = id /\ \A j \in 1..(i - 1) : prev[j].id # id) - 1
    ELSE 0 - 1

\* next.splice(idx, 1) on a copy: the list without the element at index idx
spliceOut(list, idx) == SubSeq(list, 1, idx) \o SubSeq(list, idx + 2, Len(list))

\* next.splice(at, 0, item) on a copy: item put in at index at
spliceIn(list, at, item) ==
    SubSeq(list, 1, Min(at, Len(list))) \o <<item>>
    \o SubSeq(list, Min(at, Len(list)) + 1, Len(list))

\* the element moved to the end of the list it was moved towards
movedToEdge(prev, id, dir) ==
    IF findIndex(prev, id) = 0 - 1 THEN prev
    ELSE IF findIndex(prev, id) + dir < 0 \/ findIndex(prev, id) + dir >= Len(prev) THEN prev
    ELSE spliceIn(spliceOut(prev, findIndex(prev, id)),
                  IF dir = 1 THEN Len(prev) - 1 ELSE 0,
                  prev[findIndex(prev, id) + 1])

\* the updater of moveBlock
moved(prev, id, dir) ==
    IF findIndex(prev, id) = 0 - 1 THEN prev
    ELSE IF findIndex(prev, id) + dir < 0 \/ findIndex(prev, id) + dir >= Len(prev) THEN prev
    ELSE spliceIn(spliceOut(prev, findIndex(prev, id)), findIndex(prev, id) + dir,
                  prev[findIndex(prev, id) + 1])

\* whether the updater of moveBlock goes past its two early returns
moves(prev, id, dir) ==
    /\ findIndex(prev, id) # 0 - 1
    /\ findIndex(prev, id) + dir >= 0
    /\ findIndex(prev, id) + dir < Len(prev)

\* the item put in at beforeIndex, with no account of its own removal
insertAtNoShift(fromIndex, beforeIndex) == beforeIndex

\* fromIndex < beforeIndex ? beforeIndex - 1 : beforeIndex
insertAt(fromIndex, beforeIndex) ==
    IF fromIndex < beforeIndex THEN beforeIndex - 1 ELSE beforeIndex

\* pos === "before" ? overIndex : overIndex + 1
beforeIndex(overIndex, pos) == IF pos = "before" THEN overIndex ELSE overIndex + 1

\* the updater of handleDrop and of onUp
dropped(prev, fromId, overId, pos) ==
    IF findIndex(prev, fromId) = 0 - 1 \/ findIndex(prev, overId) = 0 - 1 THEN prev
    ELSE spliceIn(spliceOut(prev, findIndex(prev, fromId)),
                  insertAt(findIndex(prev, fromId),
                           beforeIndex(findIndex(prev, overId), pos)),
                  prev[findIndex(prev, fromId) + 1])

\* an id that no block has
UnknownId == uid("blk", 0)

\* the ids the handlers are called with: those of the blocks, and an unknown one
IdsOf(bs) == {bs[i].id : i \in 1..Len(bs)}
CallIds == IdsOf(blocks) \cup {UnknownId}

Positions == {"before", "after"}

\* the blocks the editor starts from: i blocks, ids 1 to i
EditorRaw(k) ==
    [i \in 1..k |->
        [tag |-> IF i % 2 = 1 THEN <<"a">> ELSE <<"b">>,
         content |-> IF i % 3 = 0 THEN <<>> ELSE <<"x">>,
         attrs |-> IF i % 3 = 2 THEN <<[name |-> <<"n">>, value |-> <<"v">>]>> ELSE <<>>]]

EditorLists == {withIds(EditorRaw(k), 1) : k \in 0..MaxEditorBlocks}

InitReorder ==
    /\ blocks \in EditorLists
    /\ indent = Some(2)
    /\ nextUid = 1 + uidCalls(blocks)
    /\ pc = "edit"
    /\ ver = "none"
    /\ text = <<>>
    /\ result = NoResult
    /\ xml2 = <<>>
    /\ esc = <<>>
    /\ importError = undefined
    /\ esc2 = <<>>
    /\ thrown = undefined
    /\ imports = 0
    /\ EditorMounted

\* setTimeout(() => setBumped((v) => (v?.id === id ? null : v)), 220)
bumpTimer(id) == [kind |-> "bump", id |-> id]

\* setTimeout with this timeout leaves at most MaxTimers of them pending
room(t) == Cardinality(timers \ {t}) < MaxTimers

moveBlockOf(id, dir) ==
    /\ pc = "edit"
    /\ room(bumpTimer(id))
    /\ blocks' = moved(blocks, id, dir)
    /\ IF moves(blocks, id, dir)
       THEN /\ bumped' = Some([id |-> id, dir |-> dir])
            /\ timers' = timers \cup {bumpTimer(id)}
       ELSE UNCHANGED <<bumped, timers>>
    /\ UNCHANGED <<indent, nextUid, pc, parseVars, dragVars, justAddedId, removing>>
    /\ UNCHANGED <<historyVars, saved, templateVars>>
    /\ Rendered

moveBlock == \E id \in CallIds, dir \in {0 - 1, 1} : moveBlockOf(id, dir)

\* a bump timeout fires
BumpTimeout ==
    /\ pc = "edit"
    /\ \E t \in timers :
        /\ t.kind = "bump"
        /\ timers' = timers \ {t}
        /\ bumped' = IF bumped # undefined /\ bumped[1].id = t.id THEN undefined ELSE bumped
    /\ UNCHANGED <<blocks, indent, nextUid, pc, pipelineVars, dragVars, justAddedId, removing>>
    /\ UNCHANGED storeVars

handleDragStart ==
    /\ pc = "edit"
    /\ dragData = undefined
    /\ \E id \in IdsOf(blocks) :
        /\ dragData' = Some(id)
        /\ draggingId' = Some(id)
    /\ UNCHANGED <<blocks, indent, nextUid, pc, pipelineVars, dragOver, pointerDrag,
                   pointerIdRef, listeners, listVars>>
    /\ UNCHANGED storeVars

handleDragOver ==
    /\ pc = "edit"
    /\ \E overId \in IdsOf(blocks), pos \in Positions :
        IF draggingId = undefined \/ draggingId = Some(overId)
        THEN UNCHANGED dragOver
        ELSE dragOver' = Some([id |-> overId, pos |-> pos])
    /\ UNCHANGED <<blocks, indent, nextUid, pc, pipelineVars, draggingId, dragData,
                   pointerDrag, pointerIdRef, listeners, listVars>>
    /\ UNCHANGED storeVars

\* e.dataTransfer.getData("text/plain"): the id set by handleDragStart, or,
\* when the drag began outside the list, nothing or a text that is no id
DroppedData ==
    IF dragData # undefined THEN {dragData} ELSE {undefined, Some(UnknownId)}

\* dragOver?.id === overId ? dragOver.pos : "after"
dropPos(over, overId) ==
    IF over # undefined /\ over[1].id = overId THEN over[1].pos ELSE "after"

\* dragOver?.pos === "before" ? -1 : 1
dropDir(over) == IF over # undefined /\ over[1].pos = "before" THEN 0 - 1 ELSE 1

\* e.dataTransfer.getData("text/plain") || draggingId
fromIdOf(data) == IF data # undefined THEN data ELSE draggingId

handleDropOf(overId, data) ==
    /\ pc = "edit"
    /\ room(bumpTimer(overId))
    /\ IF fromIdOf(data) = undefined \/ fromIdOf(data) = Some(overId)
       THEN UNCHANGED <<blocks, bumped, timers>>
       ELSE /\ blocks' = dropped(blocks, fromIdOf(data)[1], overId, dropPos(dragOver, overId))
            /\ bumped' = Some([id |-> overId, dir |-> dropDir(dragOver)])
            /\ timers' = timers \cup {bumpTimer(overId)}
    /\ draggingId' = undefined
    /\ dragOver' = undefined
    /\ dragData' = undefined
    /\ UNCHANGED <<indent, nextUid, pc, parseVars, pointerDrag, pointerIdRef, listeners,
                   justAddedId, removing>>
    /\ UNCHANGED <<historyVars, saved, templateVars>>
    /\ Rendered

handleDrop == \E overId \in IdsOf(blocks), data \in DroppedData : handleDropOf(overId, data)

handleDragEnd ==
    /\ pc = "edit"
    /\ dragData # undefined
    /\ draggingId' = undefined
    /\ dragOver' = undefined
    /\ dragData' = undefined
    /\ UNCHANGED <<blocks, indent, nextUid, pc, pipelineVars, pointerDrag, pointerIdRef,
                   listeners, listVars>>
    /\ UNCHANGED storeVars

\* the blocks on the page but the one left out, top to bottom; block i of the
\* list spans the heights 2 * (i - 1) to 2 * i, its middle is at 2 * i - 1
entriesOf(bs, excludeId) ==
    SelectSeq([i \in 1..Len(bs) |-> [id |-> bs[i].id, mid |-> 2 * i - 1]],
              LAMBDA e : Some(e.id) # excludeId)

\* the target under the pointer: before the first entry whose middle is below
\* clientY, else after the last entry
targetIn(entries, clientY) ==
    IF entries = <<>> THEN undefined
    ELSE IF \E k \in 1..Len(entries) : clientY < entries[k].mid
    THEN Some([id |-> entries[CHOOSE k \in 1..Len(entries) :
                                /\ clientY < entries[k].mid
                                /\ \A j \in 1..(k - 1) : clientY >= entries[j].mid].id,
               pos |-> "before"])
    ELSE Some([id |-> entries[Len(entries)].id, pos |-> "after"])

computeDropTarget(clientY, excludeId) == targetIn(entriesOf(blocks, excludeId), clientY)

PointerTypes == {"mouse", "touch", "pen"}
PointerIds == 1..MaxPointers

\* onMove, onUp and cleanup of one onHandlePointerDown call, with the
\* draggingId and dragOver of the render the call was made in
listenersOf(e, id) ==
    [id |-> id, pointerId |-> e.pointerId, draggingId |-> draggingId, dragOver |-> dragOver]

onHandlePointerDown ==
    /\ pc = "edit"
    /\ Len(listeners) < MaxPointers
    /\ \E id \in IdsOf(blocks), pointerType \in PointerTypes, pointerId \in PointerIds :
        IF pointerType \notin {"touch", "pen"}
        THEN UNCHANGED <<draggingId, dragOver, pointerDrag, pointerIdRef, listeners>>
        ELSE /\ pointerId \notin {listeners[k].pointerId : k \in 1..Len(listeners)}
             /\ pointerIdRef' = Some(pointerId)
             /\ draggingId' = Some(id)
             /\ pointerDrag' = TRUE
             /\ dragOver' = undefined
             /\ listeners' = Append(listeners, listenersOf([pointerId |-> pointerId], id))
    /\ UNCHANGED <<blocks, indent, nextUid, pc, pipelineVars, dragData, listVars>>
    /\ UNCHANGED storeVars

\* a pointermove event on the window: every onMove registered runs
onMove ==
    /\ pc = "edit"
    /\ listeners # <<>>
    /\ \E pointerId \in PointerIds, clientY \in 0..(2 * Len(blocks)) :
        IF pointerIdRef # Some(pointerId)
        THEN UNCHANGED dragOver
        ELSE dragOver' = computeDropTarget(clientY, Some(listeners[Len(listeners)].id))
    /\ UNCHANGED <<blocks, indent, nextUid, pc, pipelineVars, draggingId, dragData,
                   pointerDrag, pointerIdRef, listeners, listVars>>
    /\ UNCHANGED storeVars

\* the reorder onUp makes: tgt and draggingId are those of its closure
reordered(l, prev) ==
    IF l.dragOver # undefined /\ l.draggingId # undefined
    THEN dropped(prev, l.draggingId[1], l.dragOver[1].id, l.dragOver[1].pos)
    ELSE prev

\* a pointerup or pointercancel event on the window: the first onUp registered
\* runs and cleans up; pointerIdRef is then null and the others return
onUpOf(pointerId) ==
    /\ pc = "edit"
    /\ listeners # <<>>
    /\ IF pointerIdRef # Some(pointerId)
       THEN UNCHANGED <<blocks, bumped, timers, draggingId, dragOver, pointerDrag,
                        pointerIdRef, listeners>>
       ELSE /\ blocks' = reordered(Head(listeners), blocks)
            /\ IF Head(listeners).dragOver # undefined /\ Head(listeners).draggingId # undefined
               THEN /\ room(bumpTimer(Head(listeners).dragOver[1].id))
                    /\ bumped' = Some([id |-> Head(listeners).dragOver[1].id,
                                       dir |-> dropDir(Head(listeners).dragOver)])
                    /\ timers' = timers \cup {bumpTimer(Head(listeners).dragOver[1].id)}
               ELSE UNCHANGED <<bumped, timers>>
            /\ pointerIdRef' = undefined
            /\ draggingId' = undefined
            /\ dragOver' = undefined
            /\ pointerDrag' = FALSE
            /\ listeners' = Tail(listeners)
    /\ UNCHANGED <<indent, nextUid, pc, parseVars, dragData, justAddedId, removing>>
    /\ UNCHANGED <<historyVars, saved, templateVars>>
    /\ Rendered

onUp == \E pointerId \in PointerIds : onUpOf(pointerId)

\* the move buttons and drag and drop with the mouse
NextReorder ==
    \/ moveBlock
    \/ BumpTimeout
    \/ handleDragStart
    \/ handleDragOver
    \/ handleDrop
    \/ handleDragEnd

SpecReorder == InitReorder /\ [][NextReorder]_vars

\* dragging by the handle with touch or pen
NextPointer == onHandlePointerDown \/ onMove \/ onUp \/ BumpTimeout

SpecPointer == InitReorder /\ [][NextPointer]_vars

(***************************************************************************)
(* The block list of the editor: add, duplicate, remove, edit.             *)
(***************************************************************************)
\* { ...b, id: uid("blk"), attrs: b.attrs.map((a) => ({ ...a, id: uid("attr") })) }
cloneOf(b, n) ==
    [b EXCEPT !.id = uid("blk", n),
              !.attrs = [j \in 1..Len(b.attrs) |->
                            [b.attrs[j] EXCEPT !.id = uid("attr", n + j)]]]

\* blocks.map of the copy above, the uid() calls counted from n
RECURSIVE freshCopy(_, _)
freshCopy(bs, n) ==
    IF bs = <<>> THEN <<>>
    ELSE <<cloneOf(Head(bs), n)>> \o freshCopy(Tail(bs), n + 1 + Len(Head(bs).attrs))

\* the tag of the palette taken: one with a default content
STYLE == <<"s", "t", "y", "l", "e">>
PaletteTags == {STYLE}

\* the default content addBlock gives a tag
defaultContent(tag) ==
    IF tag = STYLE
    THEN <<"P", "r", "o", "f", "e", "s", "s", "i", "o", "n", "a", "l", " ",
           "a", "n", "d", " ", "c", "l", "e", "a", "r">>
    ELSE <<>>

addedTimer(id) == [kind |-> "added", id |-> id]

addBlock ==
    /\ pc = "edit"
    /\ Len(blocks) < MaxEditorBlocks
    /\ nextUid <= MaxUid
    /\ room(addedTimer(uid("blk", nextUid)))
    /\ \E tag \in PaletteTags :
        blocks' = Append(blocks, [id |-> uid("blk", nextUid), collapsed |-> undefined,
                                  tag |-> tag, content |-> defaultContent(tag),
                                  attrs |-> <<>>])
    /\ nextUid' = nextUid + 1
    /\ justAddedId' = Some(uid("blk", nextUid))
    /\ timers' = timers \cup {addedTimer(uid("blk", nextUid))}
    /\ UNCHANGED <<indent, pc, parseVars, dragVars, bumped, removing,
                   historyVars, saved, templateVars>>
    /\ Rendered

\* setJustAddedId((v) => (v === id ? null : v)) after 280 ms
AddedTimeout ==
    /\ pc = "edit"
    /\ \E t \in timers :
        /\ t.kind = "added"
        /\ timers' = timers \ {t}
        /\ justAddedId' = IF justAddedId = Some(t.id) THEN undefined ELSE justAddedId
    /\ UNCHANGED <<blocks, indent, nextUid, pc, pipelineVars, dragVars, bumped, removing,
                   storeVars>>

\* the clone put at the end of the list
duplicatedAtEnd(prev, id, n) ==
    IF findIndex(prev, id) = 0 - 1 THEN prev
    ELSE Append(prev, cloneOf(prev[findIndex(prev, id) + 1], n))

\* the updater of duplicateBlock
duplicated(prev, id, n) ==
    IF findIndex(prev, id) = 0 - 1 THEN prev
    ELSE spliceIn(prev, findIndex(prev, id) + 1, cloneOf(prev[findIndex(prev, id) + 1], n))

duplicateBlockOf(id) ==
    /\ pc = "edit"
    /\ Len(blocks) < MaxEditorBlocks
    /\ nextUid <= MaxUid
    /\ room(addedTimer(uid("blk", nextUid)))
    /\ blocks' = duplicated(blocks, id, nextUid)
    /\ IF findIndex(blocks, id) = 0 - 1
       THEN UNCHANGED <<nextUid, justAddedId, timers>>
       ELSE /\ nextUid' = nextUid + 1 + Len(blocks[findIndex(blocks, id) + 1].attrs)
            /\ justAddedId' = Some(uid("blk", nextUid))
            /\ timers' = timers \cup {addedTimer(uid("blk", nextUid))}
    /\ UNCHANGED <<indent, pc, parseVars, dragVars, bumped, removing,
                   historyVars, saved, templateVars>>
    /\ Rendered

duplicateBlock == \E id \in CallIds : duplicateBlockOf(id)

removeTimer(id) == [kind |-> "remove", id |-> id]

\* the first block dropped, whatever the id
removedFirst(prev, id) == IF prev = <<>> THEN prev ELSE Tail(prev)

\* prev.filter((b) => b.id !== id)
removedFrom(prev, id) == SelectSeq(prev, LAMBDA b : b.id # id)

removeBlock ==
    /\ pc = "edit"
    /\ \E id \in IdsOf(blocks) :
        /\ room(removeTimer(id))
        /\ removing' = removing \cup {id}
        /\ timers' = timers \cup {removeTimer(id)}
    /\ UNCHANGED <<blocks, indent, nextUid, pc, pipelineVars, dragVars, bumped, justAddedId,
                   storeVars>>

\* the timeout of removeBlock, 160 ms after the click
RemoveTimeoutOf(t) ==
    /\ pc = "edit"
    /\ t \in timers
    /\ t.kind = "remove"
    /\ timers' = timers \ {t}
    /\ blocks' = removedFrom(blocks, t.id)
    /\ removing' = removing \ {t.id}
    /\ UNCHANGED <<indent, nextUid, pc, parseVars, dragVars, bumped, justAddedId,
                   historyVars, saved, templateVars>>
    /\ Rendered

RemoveTimeout == \E t \in timers : RemoveTimeoutOf(t)

\* what is typed into a block: a blank content, or one that is not
BlockPatches == {[content |-> <<" ">>], [content |-> <<"y">>]}

\* prev.map((b) => (b.id === id ? { ...b, ...patch } : b))
patched(prev, id, patch) ==
    [i \in 1..Len(prev) |-> IF prev[i].id = id THEN patch @@ prev[i] ELSE prev[i]]

updateBlock ==
    /\ pc = "edit"
    /\ \E id \in IdsOf(blocks), patch \in BlockPatches :
        blocks' = patched(blocks, id, patch)
    /\ UNCHANGED <<indent, nextUid, pc, parseVars, dragVars, listVars,
                   historyVars, saved, templateVars>>
    /\ Rendered

\* the updater of addAttr
attrAdded(prev, blockId, n) ==
    [i \in 1..Len(prev) |->
        IF prev[i].id = blockId
        THEN [prev[i] EXCEPT !.attrs = Append(@, [id |-> uid("attr", n), name |-> <<>>,
                                                  value |-> <<>>])]
        ELSE prev[i]]

addAttr ==
    /\ pc = "edit"
    /\ nextUid <= MaxUid
    /\ \E blockId \in IdsOf(blocks) :
        /\ Len(blocks[findIndex(blocks, blockId) + 1].attrs) < MaxAttrs
        /\ blocks' = attrAdded(blocks, blockId, nextUid)
    /\ nextUid' = nextUid + 1
    /\ UNCHANGED <<indent, pc, parseVars, dragVars, listVars,
                   historyVars, saved, templateVars>>
    /\ Rendered

handleNew ==
    /\ pc = "edit"
    /\ blocks' = <<>>
    /\ indent' = Some(2)
    /\ UNCHANGED <<nextUid, pc, parseVars, dragVars, listVars,
                   historyVars, saved, templateVars>>
    /\ Rendered

\* the widths typed into the indent field; Number("") || 0 is 0
IndentInputs == {0, 2, 4}

setIndent ==
    /\ pc = "edit"
    /\ \E k \in IndentInputs : indent' = Some(k)
    /\ UNCHANGED <<blocks, nextUid, pc, parseVars, dragVars, listVars,
                   historyVars, saved, templateVars>>
    /\ Rendered

\* adding, duplicating, moving, editing and removing blocks
NextList ==
    \/ addBlock
    \/ AddedTimeout
    \/ duplicateBlock
    \/ removeBlock
    \/ RemoveTimeout
    \/ updateBlock
    \/ moveBlock
    \/ BumpTimeout

\* a list with room for one more block
InitList == InitReorder /\ Len(blocks) = MaxEditorBlocks - 1

SpecList == InitList /\ [][NextList]_vars

(***************************************************************************)
(* The history: snapshotNow, the manual snapshot, import, delete, clear.   *)
(***************************************************************************)
AutoTitle == <<"A", "u", "t", "o">>
Copied == <<"C", "o", "p", "i", "e", "d">>
Downloaded == <<"D", "o", "w", "n", "l", "o", "a", "d", "e", "d">>
Untitled == <<"U", "n", "t", "i", "t", "l", "e", "d">>
Imported == <<"I", "m", "p", "o", "r", "t", "e", "d">>
CUSTOM == <<"c", "u", "s", "t", "o", "m">>

\* the last MAX_HISTORY entries kept instead of the first
cappedOldest(list) == SubSeq(list, Max(1, Len(list) - MAX_HISTORY + 1), Len(list))

\* list.slice(0, MAX_HISTORY)
capped(list) == SubSeq(list, 1, Min(Len(list), MAX_HISTORY))

\* a HistoryEntry of these blocks; createdAt, the time of day, is left out
entryOf(title, bs, n) ==
    [id |-> uid("his", n), title |-> title, blocks |-> freshCopy(bs, n + 1)]

\* title?.trim() || `Auto - ${new Date().toLocaleString()}`
snapshotTitle(title) ==
    IF title = undefined \/ Trim(title[1]) = <<>> THEN AutoTitle ELSE Trim(title[1])

\* the duplicate test of snapshotNow passed: last is null or has another xml
snapshots(c) == lastSnapshotRef = undefined \/ lastSnapshotRef[1].xml # c.xml

\* snapshotNow(title) of the render whose blocks and xml are c's
snapshotNowOf(c, title) ==
    /\ nextUid <= MaxHistoryUid
    /\ IF snapshots(c)
       THEN /\ history' = capped(<<entryOf(snapshotTitle(title), c.blocks, nextUid)>>
                                 \o history)
            /\ storedHistory' = Some(history')
            /\ lastSnapshotRef' = Some([xml |-> c.xml])
            /\ nextUid' = nextUid + 1 + uidCalls(c.blocks)
       ELSE UNCHANGED <<history, storedHistory, lastSnapshotRef, nextUid>>

\* the blocks and xml of the current render
thisRender == [blocks |-> blocks, xml |-> xml]

\* the auto-snapshot timeout fires, 15 s after the effect set it
AutoTimeout ==
    /\ pc = "edit"
    /\ autoTimer # undefined
    /\ snapshotNowOf(autoTimer[1], undefined)
    /\ autoTimer' = undefined
    /\ UNCHANGED <<blocks, indent, pc, pipelineVars, dragVars, listVars, copies,
                   saved, persistTimer, templateVars>>

handleDownload ==
    /\ pc = "edit"
    /\ snapshotNowOf(thisRender, Some(Downloaded))
    /\ UNCHANGED <<blocks, indent, pc, pipelineVars, dragVars, listVars, copies,
                   autoTimer, saved, persistTimer, templateVars>>

\* navigator.clipboard.writeText(xml) begun: then and catch wait
handleCopy ==
    /\ pc = "edit"
    /\ Len(copies) < MaxCopies
    /\ copies' = Append(copies, thisRender)
    /\ UNCHANGED <<blocks, indent, nextUid, pc, pipelineVars, dragVars, listVars,
                   history, storedHistory, lastSnapshotRef,
                   autoTimer, saved, persistTimer, templateVars>>

\* the clipboard write settles, fulfilled or rejected: snapshotNow("Copied")
\* of the render handleCopy was called in
CopySettled ==
    /\ pc = "edit"
    /\ copies # <<>>
    /\ snapshotNowOf(Head(copies), Some(Copied))
    /\ copies' = Tail(copies)
    /\ UNCHANGED <<blocks, indent, pc, pipelineVars, dragVars, listVars,
                   autoTimer, saved, persistTimer, templateVars>>

\* what the Title field holds: nothing, or a title typed with a space after
HistoryTitles == {<<>>, <<"t", " ">>}

\* (historyTitle || 'Untitled').trim()
manualTitle(historyTitle) == Trim(IF historyTitle = <<>> THEN Untitled ELSE historyTitle)

\* the Snapshot button, and Enter in the Title field
ManualSnapshot ==
    /\ pc = "edit"
    /\ nextUid <= MaxHistoryUid
    /\ \E historyTitle \in HistoryTitles :
        history' = capped(<<entryOf(manualTitle(historyTitle), blocks, nextUid)>> \o history)
    /\ storedHistory' = Some(history')
    /\ nextUid' = nextUid + 1 + uidCalls(blocks)
    /\ UNCHANGED <<blocks, indent, pc, pipelineVars, dragVars, listVars,
                   lastSnapshotRef, copies, autoTimer, saved, persistTimer, templateVars>>

\* entries of a history file: one with nothing but a title, one with a block
\* that has no tag and no attrs
BareEntry == [title |-> <<"t">>, blocks |-> undefined]
BlockEntry ==
    [title |-> <<>>,
     blocks |-> Some(<<[tag |-> <<>>, content |-> <<"x">>, attrs |-> undefined]>>)]

\* JSON.parse(text) of the file chosen: no array, or an array of one entry, or
\* of one entry more than the history holds
HistoryFiles ==
    {undefined,
     Some(<<BlockEntry>>),
     Some([i \in 1..(MAX_HISTORY + 1) |-> IF i = 1 THEN BlockEntry ELSE BareEntry])}

\* the blocks of an imported entry, the uid() calls counted from n
remappedBlocks(bs, n) ==
    IF bs = undefined THEN <<>>
    ELSE [i \in 1..Len(bs[1]) |->
            [id |-> uid("blk", n + i - 1), collapsed |-> undefined,
             tag |-> IF bs[1][i].tag = <<>> THEN CUSTOM ELSE bs[1][i].tag,
             content |-> bs[1][i].content,
             attrs |-> <<>>]]

\* list.map of the import, the uid() calls counted from n
RECURSIVE remapped(_, _)
remapped(list, n) ==
    IF list = <<>> THEN <<>>
    ELSE << [id |-> uid("his", n),
             title |-> IF Head(list).title = <<>> THEN Imported ELSE Head(list).title,
             blocks |-> remappedBlocks(Head(list).blocks, n + 1)] >>
         \o remapped(Tail(list), n + 1 + Len(remappedBlocks(Head(list).blocks, n + 1)))

\* the uid() calls of remapped
RECURSIVE remapCalls(_)
remapCalls(list) ==
    IF list = <<>> THEN 0
    ELSE 1 + Len(remappedBlocks(Head(list).blocks, 0)) + remapCalls(Tail(list))

\* onChange of the history file input
ImportHistoryOf(file) ==
    /\ pc = "edit"
    /\ nextUid <= MaxHistoryUid
    /\ IF file = undefined
       THEN UNCHANGED <<history, storedHistory, nextUid>>
       ELSE /\ history' = capped(remapped(file[1], nextUid) \o history)
            /\ storedHistory' = Some(history')
            /\ nextUid' = nextUid + remapCalls(file[1])
    /\ UNCHANGED <<blocks, indent, pc, pipelineVars, dragVars, listVars,
                   lastSnapshotRef, copies, autoTimer, saved, persistTimer, templateVars>>

ImportHistory == \E file \in HistoryFiles : ImportHistoryOf(file)

\* the Delete button of an entry
DeleteEntry ==
    /\ pc = "edit"
    /\ \E k \in 1..Len(history) :
        history' = SelectSeq(history, LAMBDA x : x.id # history[k].id)
    /\ storedHistory' = Some(history')
    /\ UNCHANGED <<blocks, indent, nextUid, pc, pipelineVars, dragVars, listVars,
                   lastSnapshotRef, copies, autoTimer, saved, persistTimer, templateVars>>

\* the Clear button
ClearHistory ==
    /\ pc = "edit"
    /\ history' = <<>>
    /\ storedHistory' = Some(<<>>)
    /\ UNCHANGED <<blocks, indent, nextUid, pc, pipelineVars, dragVars, listVars,
                   lastSnapshotRef, copies, autoTimer, saved, persistTimer, templateVars>>

\* the Load button of an entry
LoadEntry ==
    /\ pc = "edit"
    /\ nextUid <= MaxHistoryUid
    /\ \E k \in 1..Len(history) :
        /\ blocks' = freshCopy(history[k].blocks, nextUid)
        /\ nextUid' = nextUid + uidCalls(history[k].blocks)
    /\ UNCHANGED <<indent, pc, parseVars, dragVars, listVars, historyVars, saved,
                   templateVars>>
    /\ Rendered

\* an editor with at most one block
InitHistory == InitReorder /\ Len(blocks) <= 1

\* the history panel, with the text edited in between
NextHistory ==
    \/ AutoTimeout
    \/ handleDownload
    \/ ManualSnapshot
    \/ ImportHistory
    \/ DeleteEntry
    \/ ClearHistory
    \/ updateBlock

SpecHistory == InitHistory /\ [][NextHistory]_vars

\* snapshotNow from the timeout, Download and Copy, with the blocks edited in
\* between
NextSnapshot ==
    \/ AutoTimeout
    \/ handleDownload
    \/ handleCopy
    \/ CopySettled
    \/ updateBlock
    \/ addAttr
    \/ LoadEntry

SpecSnapshot == InitHistory /\ [][NextSnapshot]_vars

(***************************************************************************)
(* The debounced write of blocks and indent to localStorage.               *)
(***************************************************************************)
\* the timeout of the persist effect fires, 200 ms after the effect set it:
\* localStorage.setItem(STORAGE_KEY, JSON.stringify({ blocks, indent }))
PersistTimeout ==
    /\ pc = "edit"
    /\ persistTimer # undefined
    /\ saved' = persistTimer
    /\ persistTimer' = undefined
    /\ UNCHANGED <<blocks, indent, nextUid, pc, pipelineVars, dragVars, listVars,
                   historyVars, autoTimer, templateVars>>

\* editing with the write pending or done
NextPersist ==
    \/ updateBlock
    \/ addAttr
    \/ setIndent
    \/ handleNew
    \/ PersistTimeout

SpecPersist == InitHistory /\ [][NextPersist]_vars

\* a timeout set is a timeout that fires, unless it is cleared before
SpecPersistLive == SpecPersist /\ WF_vars(PersistTimeout)

(***************************************************************************)
(* Templates: saveCurrentAsTemplate, handleTemplateSelect, loadTemplate.   *)
(***************************************************************************)
\* what the Template name field holds
TemplateNames == {<<>>, <<"t">>}

\* (name || templateName || "Untitled").trim(), name not given
templateTitle(templateName) == Trim(IF templateName = <<>> THEN Untitled ELSE templateName)

\* a Template of these blocks; createdAt and updatedAt, the time of day, are
\* left out
templateOf(name, bs, n) ==
    [id |-> uid("tpl", n), name |-> name, blocks |-> freshCopy(bs, n + 1)]

saveCurrentAsTemplate ==
    /\ pc = "edit"
    /\ nextUid <= MaxTemplateUid
    /\ Len(templates) < MaxTemplates
    /\ \E templateName \in TemplateNames :
        templates' = <<templateOf(templateTitle(templateName), blocks, nextUid)>>
                     \o templates
    /\ storedTemplates' = Some(templates')
    /\ nextUid' = nextUid + 1 + uidCalls(blocks)
    /\ UNCHANGED <<blocks, indent, pc, pipelineVars, dragVars, listVars, historyVars,
                   autoTimer, saved, persistTimer>>

\* the blocks of the template put into the editor as they are
selectedShared(tpl, n) == tpl.blocks

\* tpl.blocks.map((b) => ({ ...b, id: uid("blk"), attrs: ... }))
selected(tpl, n) == freshCopy(tpl.blocks, n)

\* loadTemplate(kind): "blank", or the starter of the else branch
loadedTemplate(kind, n) == IF kind = "blank" THEN <<>> ELSE SubSeq(SeedBlocks(n), 1, 2)

\* the values of the select: the placeholder, two built-in templates, the
\* custom templates and one that is not in the list
TemplateValues ==
    {[prefix |-> "", rest |-> ""], [prefix |-> "builtin:", rest |-> "blank"],
     [prefix |-> "builtin:", rest |-> "starter"], [prefix |-> "custom:", rest |-> UnknownId]}
    \cup {[prefix |-> "custom:", rest |-> templates[k].id] : k \in 1..Len(templates)}

\* templates.find((t) => t.id === id)
findTemplate(id) ==
    IF \E k \in 1..Len(templates) : templates[k].id = id
    THEN Some(templates[CHOOSE k \in 1..Len(templates) :
                          /\ templates[k].id = id
                          /\ \A j \in 1..(k - 1) : templates[j].id # id])
    ELSE undefined

handleTemplateSelectOf(val) ==
    /\ pc = "edit"
    /\ nextUid <= MaxTemplateUid
    /\ IF val.prefix = "builtin:"
       THEN /\ blocks' = loadedTemplate(val.rest, nextUid)
            /\ nextUid' = nextUid + uidCalls(blocks')
       ELSE IF val.prefix = "custom:" /\ findTemplate(val.rest) # undefined
       THEN /\ blocks' = selected(findTemplate(val.rest)[1], nextUid)
            /\ nextUid' = nextUid + uidCalls(blocks')
       ELSE UNCHANGED <<blocks, nextUid>>
    /\ UNCHANGED <<indent, pc, parseVars, dragVars, listVars, historyVars, saved,
                   templateVars>>
    /\ Rendered

handleTemplateSelect == \E val \in TemplateValues : handleTemplateSelectOf(val)

\* saving templates and loading them, with the list edited in between
NextTemplates ==
    \/ saveCurrentAsTemplate
    \/ handleTemplateSelect
    \/ updateBlock
    \/ moveBlock
    \/ BumpTimeout

SpecTemplates == InitList /\ [][NextTemplates]_vars

(***************************************************************************)
(* Vocabulary of the properties.                                           *)
(***************************************************************************)
\* sub occurs in s
Contains(s, sub) == \E i \in 1..(Len(s) - Len(sub) + 1) : StartsWith(s, i, sub)

\* name/value pairs of an attribute list, ids left out
Pairs(attrs) == [j \in 1..Len(attrs) |-> <<attrs[j].name, attrs[j].value>>]

\* attributes whose name has a character that is not white space
RECURSIVE NamedAttrs(_)
NamedAttrs(attrs) ==
    IF attrs = <<>> THEN <<>>
    ELSE IF \E i \in 1..Len(Head(attrs).name) : Head(attrs).name[i] \notin WhiteSpace
         THEN <<Head(attrs)>> \o NamedAttrs(Tail(attrs))
         ELSE NamedAttrs(Tail(attrs))

\* the indent width buildXml is specified to use
ClampedIndent ==
    IF indent = undefined THEN 2
    ELSE IF indent[1] < 0 THEN 0
    ELSE IF indent[1] > 8 THEN 8
    ELSE indent[1]

Lines(s) == Split(s, "\n")

\* lines a block is specified to occupy: two tag lines and its content lines
LineCount(b) ==
    2 + (IF \E i \in 1..Len(b.content) : b.content[i] \notin WhiteSpace
         THEN Len(Split(b.content, "\n")) ELSE 0)

\* index, among the lines of the output, of the opening tag line of block i
RECURSIVE OpenLine(_, _)
OpenLine(bs, i) == IF i = 1 THEN 1 ELSE LineCount(bs[i - 1]) + OpenLine(bs, i - 1)

\* one substitution per character: escaping with nothing escaped twice
EscapedChar(c) ==
    IF c = "&" THEN AMP
    ELSE IF c = "<" THEN LT
    ELSE IF c = ">" THEN GT
    ELSE IF c = "\"" THEN QUOT
    ELSE IF c = "'" THEN APOS
    ELSE <<c>>

EscapedOnce(s) == Flatten([i \in 1..Len(s) |-> EscapedChar(s[i])])

AmpOnly(s) == Flatten([i \in 1..Len(s) |-> IF s[i] = "&" THEN AMP ELSE <<s[i]>>])

BTAG == <<"<", "b", ">">>

(***************************************************************************)
(* C1.  Round trip: for a block list with non-empty tags, attribute names  *)
(* free of white space and content free of the wrapper tag name, and an    *)
(* indent width in 0..8, parsing the serialised text gives no error and    *)
(* blocks with the same tags, the same named attributes in order and the   *)
(* trimmed content.                                                        *)
(***************************************************************************)
RoundTripInput ==
    /\ indent # undefined /\ indent[1] \in 0..8
    /\ \A i \in 1..Len(blocks) :
        /\ blocks[i].tag # <<>>
        /\ ~Contains(blocks[i].content, XROOT)
        /\ \A j \in 1..Len(blocks[i].attrs) :
            \A k \in 1..Len(blocks[i].attrs[j].name) :
                blocks[i].attrs[j].name[k] \notin WhiteSpace

C1_RoundTrip ==
    (pc = "parsed" /\ RoundTripInput) =>
        /\ result.error = undefined
        /\ Len(result.blocks) = Len(blocks)
        /\ \A i \in 1..Len(blocks) :
            /\ result.blocks[i].tag = blocks[i].tag
            /\ Pairs(result.blocks[i].attrs) = Pairs(NamedAttrs(blocks[i].attrs))
            /\ result.blocks[i].content = Trim(blocks[i].content)

(***************************************************************************)
(* C2.  Escaping asymmetry: every content line of the output is the        *)
(* content segment with only '&' replaced (so '<b>' stays '<b>'), while    *)
(* an attribute value '<b>' is written '&lt;b&gt;'.                        *)
(***************************************************************************)
C2_EscapingAsymmetry ==
    pc = "built" =>
        \A i \in 1..Len(blocks) :
            LET b == blocks[i]
                at == OpenLine(blocks, i)
                segs == Split(b.content, "\n")
            IN  /\ LineCount(b) > 2 =>
                    \A j \in 1..Len(segs) :
                        Lines(xml)[at + j] = Repeat(" ", ClampedIndent) \o AmpOnly(segs[j])
                /\ \A j \in 1..Len(b.attrs) :
                    (b.attrs[j].name = <<"n">> /\ b.attrs[j].value = BTAG) =>
                        Contains(Lines(xml)[at],
                                 <<"n", "=", "\"">> \o LT \o <<"b">> \o GT \o <<"\"">>)

(***************************************************************************)
(* C3.  parseXmlToBlocks is all-or-nothing: blocks and no error, or no     *)
(* blocks and a non-empty error; '<a><b></a>' gives no blocks and an error.*)
(***************************************************************************)
MismatchedText == <<"<", "a", ">", "<", "b", ">", "<", "/", "a", ">">>

C3_AllOrNothing ==
    pc = "parsed" =>
        /\ \/ result.blocks # <<>> /\ result.error = undefined
           \/ result.blocks = <<>> /\ result.error # undefined /\ result.error[1] # <<>>
        /\ text = MismatchedText => result.blocks = <<>> /\ result.error # undefined

C3_Witness ==
    /\ pc = "parsed"
    /\ text = MismatchedText
    /\ result.blocks = <<>>
    /\ result.error # undefined

(***************************************************************************)
(* C4.  Parsing the empty text yields an empty block list and no error.    *)
(***************************************************************************)
C4_EmptyInput ==
    (pc = "parsed" /\ text = <<>>) =>
        result.blocks = <<>> /\ result.error = undefined

(***************************************************************************)
(* C5.  Fallback wrapping: a text made of two or more well-formed sibling  *)
(* elements fails the direct parse and parses inside the synthetic root    *)
(* into one block per sibling, in order, with wrapped = true, no error     *)
(* and no root name.                                                       *)
(***************************************************************************)
\* the elements of a text that is nothing but elements and white space
RECURSIVE Siblings(_, _, _)
Siblings(s, i, acc) ==
    LET j == SkipSpace(s, i)
        el == ParseElement(s, j)
    IN  IF j > Len(s) THEN [ok |-> TRUE, els |-> acc]
        ELSE IF el.ok THEN Siblings(s, el.pos, Append(acc, el.node))
        ELSE Fail

TwoSiblingsText ==
    <<"<", "a", ">", "1", "<", "/", "a", ">", "\n", "<", "b", ">", "2", "<", "/", "b", ">">>

C5_FallbackWrapping ==
    pc = "parsed" =>
        LET sib == Siblings(text, 1, <<>>)
        IN  (sib.ok /\ Len(sib.els) >= 2) =>
                /\ ~ParseDocument(text).ok
                /\ result.error = undefined
                /\ result.wrapped = Some(TRUE)
                /\ result.root = undefined
                /\ Len(result.blocks) = Len(sib.els)
                /\ \A i \in 1..Len(sib.els) :
                    /\ result.blocks[i].tag = sib.els[i].tag
                    /\ result.blocks[i].content = Trim(textContent(sib.els[i]))

(***************************************************************************)
(* C6.  Idempotent re-serialisation: when no block content has leading or  *)
(* trailing white space, serialising the blocks parsed from the output     *)
(* gives the output again.                                                 *)
(***************************************************************************)
C6_IdempotentReserialize ==
    (pc = "rebuilt" /\ \A i \in 1..Len(blocks) : Trim(blocks[i].content) = blocks[i].content)
        => xml2 = xml

(***************************************************************************)
(* C7.  escapeXml escapes nothing twice: its result is the text with each  *)
(* of & < > " ' replaced by its entity and every other character kept.     *)
(***************************************************************************)
C7_NoDoubleEscaping == pc = "escapedAttr" => esc = EscapedOnce(text)

C7_Witness ==
    /\ pc = "escapedAttr"
    /\ text = <<"<", "&", "\"">>
    /\ esc = LT \o AMP \o QUOT

(***************************************************************************)
(* C8.  Attribute filtering and order: the opening tag line of a block is  *)
(* '<tag', then ' name="escaped value"' for each attribute whose name is   *)
(* not blank, in list order, then '>'; with no such attribute it is        *)
(* '<tag>'.                                                                *)
(***************************************************************************)
RECURSIVE AttrFragment(_)
AttrFragment(attrs) ==
    IF attrs = <<>> THEN <<>>
    ELSE <<" ">> \o Head(attrs).name \o <<"=", "\"">> \o EscapedOnce(Head(attrs).value)
         \o <<"\"">> \o AttrFragment(Tail(attrs))

C8_AttributeFiltering ==
    pc = "built" =>
        \A i \in 1..Len(blocks) :
            Lines(xml)[OpenLine(blocks, i)] =
                <<"<">> \o blocks[i].tag \o AttrFragment(NamedAttrs(blocks[i].attrs)) \o <<">">>

C8_Witness ==
    /\ pc = "built"
    /\ Len(blocks) = 1
    /\ Pairs(blocks[1].attrs) = << <<<<" ">>, <<"v">>>>, <<<<"n">>, BTAG>> >>
    /\ Lines(xml)[1] = <<"<", "a", " ", "n", "=", "\"">> \o LT \o <<"b">> \o GT \o <<"\"", ">">>

(***************************************************************************)
(* C9.  Clamping: the output for an indent below 0 is that for 0, for an   *)
(* indent above 8 that for 8, and for an omitted indent that for 2.        *)
(***************************************************************************)
C9_Clamping ==
    pc = "built" =>
        xml = IF ver = "home"
              THEN buildXmlHome(blocks, [indent |-> Some(ClampedIndent)])
              ELSE buildXml(blocks, [indent |-> Some(ClampedIndent)])

C9_Witness ==
    /\ pc = "built"
    /\ indent # undefined /\ indent[1] > 8
    /\ Len(blocks) = 1 /\ blocks[1].content = <<"x">> /\ blocks[1].attrs = <<>>
    /\ Lines(xml)[2] = Repeat(" ", 8) \o <<"x">>

(***************************************************************************)
(* C10.  Root-name rule: a root name is returned exactly when the parse    *)
(* succeeded unwrapped and the document element has an element child, and  *)
(* it is then the document element's tag; '<note>hello</note>' gives the   *)
(* one block note/hello and no root; a wrapped parse gives no root.        *)
(***************************************************************************)
NoteText ==
    <<"<", "n", "o", "t", "e", ">", "h", "e", "l", "l", "o", "<", "/", "n", "o", "t", "e", ">">>

C10_RootName ==
    pc = "parsed" =>
        LET d == ParseDocument(text)
        IN  /\ result.root # undefined <=>
                /\ result.error = undefined
                /\ result.wrapped = Some(FALSE)
                /\ d.ok
                /\ elementChildren(d.node.kids) # <<>>
            /\ result.root # undefined => result.root = Some(d.node.tag)
            /\ result.wrapped = Some(TRUE) => result.root = undefined
            /\ text = NoteText =>
                /\ result.root = undefined
                /\ Len(result.blocks) = 1
                /\ result.blocks[1].tag = <<"n", "o", "t", "e">>
                /\ result.blocks[1].content = <<"h", "e", "l", "l", "o">>

C10_Witness ==
    /\ pc = "parsed"
    /\ text = <<"<", "a", ">", "<", "b", ">", "2", "<", "/", "b", ">", "<", "/", "a", ">">>
    /\ result.root = Some(<<"a">>)
    /\ result.wrapped = Some(FALSE)

(***************************************************************************)
(* C11.  Block selection: on a successful parse, a root element with       *)
(* element children gives one block per child, in document order, and no   *)
(* block for the root; a root element without element children gives       *)
(* exactly one block, built from the root.                                 *)
(***************************************************************************)
\* the root element of the tree a successful parse worked on
ParsedRoot(s) ==
    IF ParseDocument(s).ok THEN ParseDocument(s).node
    ELSE ParseDocument(wrapInRoot(s)).node

BlockOfElement(b, el) ==
    /\ b.tag = el.tag
    /\ b.content = Trim(textContent(el))
    /\ Pairs(b.attrs) = Pairs(el.attrs)

C11_BlockSelection ==
    (pc = "parsed" /\ result.error = undefined) =>
        LET r == ParsedRoot(text)
            ch == elementChildren(r.kids)
        IN  IF ch # <<>>
            THEN /\ Len(result.blocks) = Len(ch)
                 /\ \A i \in 1..Len(ch) : BlockOfElement(result.blocks[i], ch[i])
            ELSE /\ Len(result.blocks) = 1
                 /\ BlockOfElement(result.blocks[1], r)

C11_Witness ==
    /\ pc = "parsed"
    /\ text = TwoSiblingsText
    /\ Len(result.blocks) = 2
    /\ result.blocks[1].tag = <<"a">>
    /\ result.blocks[2].tag = <<"b">>

(***************************************************************************)
(* C12.  Output layout: the output is, block after block in list order,    *)
(* the opening tag line, the content lines and the closing tag line, the   *)
(* tag lines not indented, one newline between consecutive lines, none at  *)
(* the end and no enclosing root element; the empty list gives the empty   *)
(* string, and the block system / 'Be terse.' at indent 2 gives            *)
(* '<system>\n  Be terse.\n</system>'.                                     *)
(***************************************************************************)
NonBlank(s) == \E i \in 1..Len(s) : s[i] \notin WhiteSpace

\* the content escaping of the copy of buildXml that built xml
ContentEscaped(s) == IF ver = "home" THEN EscapedOnce(s) ELSE AmpOnly(s)

ExpectedBlock(b) ==
    <<"<">> \o b.tag \o AttrFragment(NamedAttrs(b.attrs)) \o <<">">>
    \o (IF NonBlank(b.content)
        THEN Flatten([j \in 1..Len(Split(b.content, "\n")) |->
                <<"\n">> \o Repeat(" ", ClampedIndent)
                \o ContentEscaped(Split(b.content, "\n")[j])])
        ELSE <<>>)
    \o <<"\n", "<", "/">> \o b.tag \o <<">">>

RECURSIVE ExpectedText(_)
ExpectedText(bs) ==
    IF bs = <<>> THEN <<>>
    ELSE IF Len(bs) = 1 THEN ExpectedBlock(bs[1])
    ELSE ExpectedBlock(Head(bs)) \o <<"\n">> \o ExpectedText(Tail(bs))

SystemTag == <<"s", "y", "s", "t", "e", "m">>
BeTerse == <<"B", "e", " ", "t", "e", "r", "s", "e", ".">>
SystemText ==
    <<"<">> \o SystemTag \o <<">", "\n", " ", " ">> \o BeTerse
    \o <<"\n", "<", "/">> \o SystemTag \o <<">">>

IsSystemExample ==
    /\ Len(blocks) = 1
    /\ blocks[1].tag = SystemTag
    /\ blocks[1].content = BeTerse
    /\ blocks[1].attrs = <<>>
    /\ indent = Some(2)

C12_OutputLayout ==
    pc = "built" =>
        /\ xml = ExpectedText(blocks)
        /\ (blocks = <<>> => xml = <<>>)
        /\ (IsSystemExample => xml = SystemText)

C12_Witness == pc = "built" /\ IsSystemExample /\ xml = SystemText

(***************************************************************************)
(* C13.  Content lines: a block whose content is empty or only white space *)
(* takes exactly two lines, its opening and closing tag; any other block   *)
(* has one content line for each newline-separated segment of its content  *)
(* as given, untrimmed, leading, trailing and empty segments included,     *)
(* each line being the clamped indent width in spaces and then the escaped *)
(* segment.                                                                *)
(***************************************************************************)
CloseLine(b) == <<"<", "/">> \o b.tag \o <<">">>

C13_ContentLines ==
    pc = "built" =>
        \A i \in 1..Len(blocks) :
            LET b == blocks[i]
                at == OpenLine(blocks, i)
                segs == Split(b.content, "\n")
            IN  IF NonBlank(b.content)
                THEN /\ \A j \in 1..Len(segs) :
                            Lines(xml)[at + j] =
                                Repeat(" ", ClampedIndent) \o ContentEscaped(segs[j])
                     /\ Lines(xml)[at + Len(segs) + 1] = CloseLine(b)
                     /\ (i = Len(blocks) => Len(Lines(xml)) = at + Len(segs) + 1)
                ELSE /\ Lines(xml)[at + 1] = CloseLine(b)
                     /\ (i = Len(blocks) => Len(Lines(xml)) = at + 1)

MultiLineContent == <<"\n", "x", "\n", "\n", " ", "y", " ">>

C13_Witness ==
    /\ pc = "built"
    /\ Len(blocks) = 1
    /\ blocks[1].content = MultiLineContent
    /\ indent = Some(1)
    /\ Lines(xml) = << <<"<", "a", ">">>, <<" ">>, <<" ", "x">>, <<" ">>,
                       <<" ", " ", "y", " ">>, <<"<", "/", "a", ">">> >>

(***************************************************************************)
(* C14.  parseXmlToBlocks never raises: for every text, and also when the  *)
(* parser throws, a result is returned; a failed parse returns no blocks   *)
(* and a non-empty error, which is the message of the parser when it gave  *)
(* one and a generic message otherwise.                                    *)
(***************************************************************************)
\* the text of the parsererror element of the document that was used last
ReportedText(s) ==
    LET first == parseFromString(s)
        last == IF getElementsByTagName(first, PARSERERROR) # <<>>
                THEN parseFromString(wrapInRoot(s)) ELSE first
    IN  textContent(getElementsByTagName(last, PARSERERROR)[1])

C14_NeverRaises ==
    /\ pc = "input" =>
        /\ DOMAIN parseXmlToBlocks(text, nextUid) = {"root", "blocks", "wrapped", "error"}
        /\ \A e \in Thrown :
             DOMAIN catchResult(e) = {"root", "blocks", "wrapped", "error"}
    /\ pc \in {"parsed", "caught"} =>
        /\ DOMAIN result = {"root", "blocks", "wrapped", "error"}
        /\ result.error # undefined =>
            /\ result.blocks = <<>>
            /\ result.error[1] # <<>>
    /\ (pc = "parsed" /\ result.error # undefined) =>
        result.error[1] = IF ReportedText(text) # <<>> THEN ReportedText(text)
                          ELSE XmlParseErrorMsg
    /\ pc = "caught" =>
        /\ result.error # undefined
        /\ result.error[1] =
             IF thrown[1].message \in {undefined, Some(<<>>)} THEN FailedToParseMsg
             ELSE thrown[1].message[1]

C14_Witness ==
    /\ pc = "caught"
    /\ thrown = Some([message |-> undefined])
    /\ result.blocks = <<>>
    /\ result.error = Some(FailedToParseMsg)

(***************************************************************************)
(* C15.  Import is atomic for the caller: after handleImportXml(text), if  *)
(* the parse returned an error the block list is what it was and           *)
(* importError holds that error; if the parse succeeded the block list is  *)
(* the parsed blocks and importError is cleared.  The block list is never  *)
(* replaced in part.                                                       *)
(***************************************************************************)
\* what parseXmlToBlocks returned in the import step
Returned(t, n, thr) == IF thr = undefined THEN parseXmlToBlocks(t, n) ELSE catchResult(thr[1])

C15_ImportAtomic ==
    [][imports' = imports + 1 =>
        LET r == Returned(text', nextUid, thrown')
        IN  IF r.error # undefined
            THEN blocks' = blocks /\ importError' = r.error
            ELSE blocks' = r.blocks /\ importError' = undefined]_vars

C15_Witness ==
    /\ imports = 2
    /\ text = <<"<", "a", ">">>
    /\ importError # undefined
    /\ Len(blocks) = 2
    /\ blocks[1].tag = <<"a">> /\ blocks[2].tag = <<"b">>

(***************************************************************************)
(* C16.  Determinism: the output is decided by each block's tag, content   *)
(* and ordered attribute name/value pairs and by the indent width; a block *)
(* list that differs only in block ids, attribute ids and collapsed flags  *)
(* gives the same text, and so does building the same list again.          *)
(***************************************************************************)
\* the same blocks under other ids and with every block collapsed
OtherIds(bs) ==
    [i \in 1..Len(bs) |->
        [id |-> uid("blk", 100 + i),
         collapsed |-> Some(TRUE),
         tag |-> bs[i].tag,
         content |-> bs[i].content,
         attrs |-> [j \in 1..Len(bs[i].attrs) |->
                      [id |-> uid("attr", 200 + j),
                       name |-> bs[i].attrs[j].name,
                       value |-> bs[i].attrs[j].value]]]]

Built(bs) ==
    IF ver = "home" THEN buildXmlHome(bs, [indent |-> indent])
    ELSE buildXml(bs, [indent |-> indent])

C16_Determinism ==
    pc = "built" =>
        /\ xml = Built(OtherIds(blocks))
        /\ xml = Built(blocks)

C16_Witness ==
    /\ pc = "built"
    /\ Len(blocks) = 1
    /\ blocks[1].attrs # <<>>
    /\ OtherIds(blocks) # blocks
    /\ xml = Built(OtherIds(blocks))

(***************************************************************************)
(* C17.  Block construction in the parser: every returned block has the    *)
(* tag name of its element with the case unchanged, the concatenated text  *)
(* of the element with leading and trailing white space removed as         *)
(* content, and the attributes of the element in document order, names and *)
(* values unchanged.                                                       *)
(***************************************************************************)
\* s without the white space before its first and after its last other character
Stripped(s) ==
    LET inked == {k \in 1..Len(s) : s[k] \notin WhiteSpace}
    IN  IF inked = {} THEN <<>>
        ELSE SubSeq(s, CHOOSE k \in inked : \A m \in inked : k <= m,
                       CHOOSE k \in inked : \A m \in inked : k >= m)

\* the character data below a node, in document order
RECURSIVE CharData(_)
CharData(n) ==
    IF n.type = 3 THEN n.data
    ELSE IF n.kids = <<>> THEN <<>>
    ELSE CharData(n.kids[1]) \o CharData([n EXCEPT !.kids = Tail(n.kids)])

ROpen == <<"<", "R", " ", "n", "=", "\"", "v", "\"", " ", "m", "=", "'", "&", "l", "t", ";", "'", ">">>
RClose == <<"<", "/", "R", ">">>
NestedText == <<"<", "a", ">", " ", "1", "<", "b", ">", "2", "<", "/", "b", ">", "\n", "<", "/", "a", ">">>

C17_BlockConstruction ==
    (pc = "parsed" /\ result.error = undefined) =>
        LET r == ParsedRoot(text)
            ch == elementChildren(r.kids)
            sel == IF ch # <<>> THEN ch ELSE <<r>>
        IN  /\ Len(result.blocks) = Len(sel)
            /\ \A i \in 1..Len(sel) :
                /\ result.blocks[i].tag = sel[i].tag
                /\ result.blocks[i].content = Stripped(CharData(sel[i]))
                /\ Pairs(result.blocks[i].attrs) = Pairs(sel[i].attrs)
            /\ text = ROpen \o <<"x">> \o RClose =>
                /\ Len(result.blocks) = 1
                /\ result.blocks[1].tag = <<"R">>
                /\ result.blocks[1].content = <<"x">>
                /\ Pairs(result.blocks[1].attrs) =
                     << <<<<"n">>, <<"v">>>>, <<<<"m">>, <<"<">>>> >>
            /\ text = ROpen \o NestedText \o RClose =>
                /\ Len(result.blocks) = 1
                /\ result.blocks[1].tag = <<"a">>
                /\ result.blocks[1].content = <<"1", "2">>

C17_Witness ==
    /\ pc = "parsed"
    /\ text = ROpen \o NestedText \o RClose
    /\ result.error = undefined
    /\ result.blocks[1].content = <<"1", "2">>

(***************************************************************************)
(* C18.  Serialisation cannot fail: every block list gives a text, and a   *)
(* block whose tag is the empty string is written as the line '<>', or     *)
(* '<' and its attributes and '>', then its content lines, then the line   *)
(* '</>'; it is neither rejected nor left out.                             *)
(***************************************************************************)
\* a sequence of characters
IsText(s) == DOMAIN s = 1..Len(s) /\ \A k \in 1..Len(s) : s[k] \in STRING

C18_EmptyTag ==
    /\ pc = "start" =>
        /\ IsText(buildXml(blocks, [indent |-> indent]))
        /\ IsText(buildXmlHome(blocks, [indent |-> indent]))
    /\ pc = "built" =>
        \A i \in 1..Len(blocks) :
            blocks[i].tag = <<>> =>
                LET at == OpenLine(blocks, i)
                    n == LineCount(blocks[i])
                IN  /\ Len(Lines(xml)) >= at + n - 1
                    /\ Lines(xml)[at] =
                         IF NamedAttrs(blocks[i].attrs) = <<>> THEN <<"<", ">">>
                         ELSE <<"<">> \o AttrFragment(NamedAttrs(blocks[i].attrs)) \o <<">">>
                    /\ \A j \in 1..(n - 2) :
                         Lines(xml)[at + j] =
                            Repeat(" ", ClampedIndent)
                            \o ContentEscaped(Split(blocks[i].content, "\n")[j])
                    /\ Lines(xml)[at + n - 1] = <<"<", "/", ">">>

C18_Witness ==
    /\ pc = "built"
    /\ indent = undefined
    /\ Len(blocks) = 1
    /\ blocks[1].tag = <<>>
    /\ Lines(xml) = << <<"<", " ", "n", "=", "\"", "v", "\"", ">">>,
                       <<" ", " ", "x">>,
                       <<"<", "/", ">">> >>

(***************************************************************************)
(* C19.  Escaping is applied exactly once and is not idempotent: buildXml  *)
(* passes each attribute value and each content line through its escaper   *)
(* once, and for a text that contains '&' an escaper applied twice gives   *)
(* another result than applied once: the '&' of '&amp;' becomes            *)
(* '&amp;amp;'.                                                            *)
(***************************************************************************)
AmpAmp == <<"&", "a", "m", "p", ";", "a", "m", "p", ";">>

HasAmp(s) == \E k \in 1..Len(s) : s[k] = "&"

C19_EscapedOnce ==
    /\ (pc \in {"twiceAttr", "twiceContent"} /\ HasAmp(text)) =>
        /\ esc2 # esc
        /\ Contains(esc, AMP) /\ ~Contains(esc, AmpAmp)
        /\ Contains(esc2, AmpAmp)
    /\ pc = "builtFromText" =>
        /\ Lines(xml)[1] =
             <<"<", "a", " ", "n", "=", "\"">> \o EscapedOnce(text) \o <<"\"", ">">>
        /\ text # <<>> =>
             Lines(xml)[2] = <<" ", " ">> \o ContentEscaped(text)

C19_Witness ==
    /\ pc = "twiceAttr"
    /\ text = <<"&">>
    /\ esc = AMP
    /\ esc2 = AmpAmp

(***************************************************************************)
(* C20.  The synthetic wrapper never leaks: when parseXmlToBlocks wrapped  *)
(* the text and returned no error, no returned block is the x-root element *)
(* itself; that includes texts without any element (empty, white space,    *)
(* plain text), whose wrapper has no element children.                     *)
(***************************************************************************)
C20_WrapperNeverLeaks ==
    (pc = "parsed" /\ result.wrapped = Some(TRUE) /\ result.error = undefined) =>
        \A i \in 1..Len(result.blocks) : result.blocks[i].tag # XROOT

(***************************************************************************)
(* C21.  moveBlock(id, dir) is an adjacent swap: with the block at index i *)
(* and i + dir inside the list, the new list is the old one with the       *)
(* elements at i and i + dir exchanged and every other position as it was; *)
(* with the id absent or i + dir outside, the list is unchanged.  After    *)
(* any sequence of moves the list is a permutation of the original.        *)
(***************************************************************************)
\* the positions, from 1, of the blocks with this id
PositionsOf(bs, id) == {i \in 1..Len(bs) : bs[i].id = id}

\* new is old with the elements at i and j exchanged
Exchanged(old, new, i, j) ==
    /\ Len(new) = Len(old)
    /\ new[i] = old[j]
    /\ new[j] = old[i]
    /\ \A k \in 1..Len(old) : k \notin {i, j} => new[k] = old[k]

\* every element of old occurs in new as often as in old, and nothing else
IsPermutation(old, new) ==
    /\ Len(new) = Len(old)
    /\ \A k \in 1..Len(old) :
        Cardinality({m \in 1..Len(new) : new[m] = old[k]})
            = Cardinality({m \in 1..Len(old) : old[m] = old[k]})

\* the list the editor started from
Original == withIds(EditorRaw(Len(blocks)), 1)

MoveIsSwap(id, dir) ==
    moveBlockOf(id, dir) =>
        IF \E i \in PositionsOf(blocks, id) : i + dir \in 1..Len(blocks)
        THEN \E i \in PositionsOf(blocks, id) : Exchanged(blocks, blocks', i, i + dir)
        ELSE blocks' = blocks

C21_MoveIsSwap ==
    /\ [](IsPermutation(Original, blocks))
    /\ [][\A id \in CallIds, dir \in {0 - 1, 1} : MoveIsSwap(id, dir)]_vars

C21_Witness ==
    /\ Len(blocks) = 3
    /\ bumped = Some([id |-> uid("blk", 1), dir |-> 1])
    /\ blocks[1].id = uid("blk", 2)
    /\ blocks[2].id = uid("blk", 1)
    /\ blocks[3].id = uid("blk", 4)

(***************************************************************************)
(* C22.  Drag-and-drop reorder: after handleDrop of block F onto another   *)
(* block T with position 'before' (or 'after'), the list is a permutation  *)
(* of the previous one with F immediately before (or after) T and the      *)
(* other blocks in their previous relative order; a drop of a block on     *)
(* itself, or with an unknown id, leaves the list unchanged; in every case *)
(* draggingId and dragOver are reset to null.                              *)
(***************************************************************************)
\* the list without the blocks of this id
Without(bs, id) == SelectSeq(bs, LAMBDA b : b.id # id)

\* F sits immediately before T, or immediately after it
Beside(bs, F, T, pos) ==
    \E i \in 1..(Len(bs) - 1) :
        IF pos = "before" THEN bs[i].id = F /\ bs[i + 1].id = T
        ELSE bs[i].id = T /\ bs[i + 1].id = F

DropReorders(T, data) ==
    handleDropOf(T, data) =>
        LET F == IF data # undefined THEN data ELSE draggingId
        IN  /\ draggingId' = undefined
            /\ dragOver' = undefined
            /\ IF F = undefined \/ F = Some(T) \/ PositionsOf(blocks, F[1]) = {}
               THEN blocks' = blocks
               ELSE /\ IsPermutation(blocks, blocks')
                    /\ Without(blocks', F[1]) = Without(blocks, F[1])
                    /\ \A pos \in Positions :
                         dragOver = Some([id |-> T, pos |-> pos]) =>
                            Beside(blocks', F[1], T, pos)

C22_DropReorders ==
    [][\A T \in IdsOf(blocks), data \in DroppedData : DropReorders(T, data)]_vars

\* blocks 1, 2, 4 in the order 2, 1, 4 after block 1 was dropped before block 4
C22_Witness ==
    /\ Len(blocks) = 3
    /\ bumped = Some([id |-> uid("blk", 4), dir |-> 0 - 1])
    /\ blocks[1].id = uid("blk", 2)
    /\ blocks[2].id = uid("blk", 1)
    /\ blocks[3].id = uid("blk", 4)
    /\ draggingId = undefined
    /\ dragOver = undefined

(***************************************************************************)
(* C23.  Touch and pen drag reorders like a drop: a pointer drag started   *)
(* on a drag handle, moved over a drop target and released moves the       *)
(* dragged block immediately before or after that target as handleDrop     *)
(* would, with the drag target and the dragged id of the time of release;  *)
(* afterwards draggingId, dragOver and pointerDrag are cleared and the     *)
(* window listeners are removed.                                           *)
(***************************************************************************)
ReleaseReorders(pointerId) ==
    (onUpOf(pointerId) /\ pointerIdRef = Some(pointerId)) =>
        /\ blocks' = IF dragOver # undefined /\ draggingId # undefined
                     THEN dropped(blocks, draggingId[1], dragOver[1].id, dragOver[1].pos)
                     ELSE blocks
        /\ draggingId' = undefined
        /\ dragOver' = undefined
        /\ pointerDrag' = FALSE
        /\ listeners' = <<>>

C23_PointerDragReorders ==
    [][\A pointerId \in PointerIds : ReleaseReorders(pointerId)]_vars

(***************************************************************************)
(* C28.  Deferred removal is safe under interleaving: removeBlock(id)      *)
(* marks the id as removing and leaves the list alone; the id stays marked *)
(* with its timeout pending whatever add, duplicate, move or edit runs in  *)
(* between; when the timeout fires no block with that id is left, every    *)
(* other block is still there in its order, and the id is no longer in the *)
(* removing set.                                                           *)
(***************************************************************************)
RemovalIsSafe(t) ==
    RemoveTimeoutOf(t) =>
        /\ PositionsOf(blocks', t.id) = {}
        /\ blocks' = Without(blocks, t.id)
        /\ t.id \notin removing'

AllIds(bs) ==
    IdsOf(bs) \cup UNION {{bs[i].attrs[j].id : j \in 1..Len(bs[i].attrs)} : i \in 1..Len(bs)}

\* same tag, content and attribute names and values, in order
SameText(b, c) ==
    /\ b.tag = c.tag
    /\ b.content = c.content
    /\ Pairs(b.attrs) = Pairs(c.attrs)

DuplicateIsClone(id) ==
    duplicateBlockOf(id) =>
        IF PositionsOf(blocks, id) = {} THEN blocks' = blocks
        ELSE \E i \in PositionsOf(blocks, id) :
                /\ Len(blocks') = Len(blocks) + 1
                /\ SubSeq(blocks', 1, i) = SubSeq(blocks, 1, i)
                /\ SubSeq(blocks', i + 2, Len(blocks')) = SubSeq(blocks, i + 1, Len(blocks))
                /\ SameText(blocks'[i + 1], blocks[i])
                /\ AllIds(<<blocks'[i + 1]>>) \cap AllIds(blocks) = {}
                /\ Cardinality(AllIds(<<blocks'[i + 1]>>)) = 1 + Len(blocks[i].attrs)

C29_DuplicateIsClone == [][\A id \in CallIds : DuplicateIsClone(id)]_vars

\* block 1 of blocks 1 and 2 duplicated: the clone, block 4, sits between them
C29_Witness ==
    /\ Len(blocks) = 3
    /\ blocks[1].id = uid("blk", 1)
    /\ blocks[2].id = uid("blk", 4)
    /\ blocks[3].id = uid("blk", 2)
    /\ SameText(blocks[2], blocks[1])
    /\ justAddedId = Some(uid("blk", 4))

(***************************************************************************)
(* C24.  History is bounded and newest-first: through automatic and manual *)
(* snapshots, imports, deletions and clears the history has at most        *)
(* MAX_HISTORY entries; entries newly added are at the front, in front of  *)
(* the entries kept, and those cut off beyond MAX_HISTORY are the last,    *)
(* oldest, ones; the value written to localStorage is the list in memory.  *)
(***************************************************************************)
HistoryIds(h) == {h[k].id : k \in 1..Len(h)}

\* new is old with k new entries in front and the end cut off at MAX_HISTORY
AddedInFront(old, new, k) ==
    /\ k \in 1..Len(new)
    /\ \A j \in 1..k : new[j].id \notin HistoryIds(old)
    /\ Len(new) - k <= Len(old)
    /\ SubSeq(new, k + 1, Len(new)) = SubSeq(old, 1, Len(new) - k)
    /\ Len(new) - k < Len(old) => Len(new) = MAX_HISTORY

\* new is old with some entries taken out
TakenOut(old, new) ==
    new = SelectSeq(old, LAMBDA x : x.id \in HistoryIds(new))

\* the k entries made in this step lead the list, the first made first
Newest(k) ==
    /\ AddedInFront(history, history', k)
    /\ history'[1].id = uid("his", nextUid)

\* the steps that add entries add them in front
AddsInFront ==
    /\ ManualSnapshot => Newest(1)
    /\ (AutoTimeout \/ handleDownload) /\ nextUid' # nextUid => Newest(1)
    /\ \A file \in HistoryFiles \ {undefined} :
          ImportHistoryOf(file) => Newest(Min(Len(file[1]), MAX_HISTORY))

SnapshotNowRuns == AutoTimeout \/ handleDownload \/ CopySettled

SnapshotOfCurrentText ==
    SnapshotNowRuns =>
        IF lastSnapshotRef # undefined /\ lastSnapshotRef[1].xml = xml
        THEN history' = history
        ELSE /\ AddedInFront(history, history', 1)
             /\ buildXml(history'[1].blocks, [indent |-> indent]) = xml

C25_NoDuplicateSnapshots == [][SnapshotOfCurrentText]_vars

(***************************************************************************)
(* C26.  Auto-snapshot after inactivity: every change of the serialized    *)
(* text cancels the pending auto-snapshot timeout and starts a new one, so *)
(* the timeout that fires was set when the text last changed, and the      *)
(* snapshot it records contains the blocks current when it fires.          *)
(***************************************************************************)
\* the same blocks but for the ids
SameBlocks(bs, cs) ==
    /\ Len(bs) = Len(cs)
    /\ \A i \in 1..Len(bs) : SameText(bs[i], cs[i])

AutoSnapshotIsCurrent ==
    /\ xml' # xml => autoTimer' = Some([blocks |-> blocks', xml |-> xml'])
    /\ AutoTimeout =>
         /\ autoTimer[1].xml = xml
         /\ history' # history => SameBlocks(history'[1].blocks, blocks)

C26_AutoSnapshot == [][AutoSnapshotIsCurrent]_vars

(***************************************************************************)
(* C27.  Debounced persistence: each change of blocks or indent cancels    *)
(* the pending write and schedules a new one, so the write pending is      *)
(* always the one of the current state and a write of a superseded state   *)
(* never executes; once blocks and indent stop changing, the value stored  *)
(* under the storage key eventually equals the current blocks and indent.  *)
(***************************************************************************)
CurrentDocument == Some([blocks |-> blocks, indent |-> indent])

TemplateIds == UNION {AllIds(templates[k].blocks) : k \in 1..Len(templates)}

SavedIsCopy ==
    saveCurrentAsTemplate =>
        /\ SameBlocks(templates'[1].blocks, blocks)
        /\ AllIds(templates'[1].blocks) \cap (AllIds(blocks) \cup TemplateIds) = {}
        /\ Cardinality(AllIds(templates'[1].blocks)) = uidCalls(blocks)

SavedStay ==
    /\ Len(templates') >= Len(templates)
    /\ SubSeq(templates', Len(templates') - Len(templates) + 1, Len(templates')) = templates

SelectLoadsCopy(val) ==
    (handleTemplateSelectOf(val) /\ val.prefix = "custom:") =>
        IF \E k \in 1..Len(templates) : templates[k].id = val.rest
        THEN \E k \in 1..Len(templates) :
                /\ templates[k].id = val.rest
                /\ SameBlocks(blocks', templates[k].blocks)
                /\ AllIds(blocks') \cap (AllIds(blocks) \cup TemplateIds) = {}
                /\ Cardinality(AllIds(blocks')) = uidCalls(templates[k].blocks)
        ELSE blocks' = blocks

====
